---------------------------- MODULE Spec2Model ----------------------------
(***************************************************************************)
(* Model of the documentation-graph verifier (src/src/commands/verify.js)  *)
(* and of the codebase scanner (src/src/commands/scan.js).                 *)
(*                                                                         *)
(* The project directory is the input: Init draws it from a bounded set of *)
(* directory trees, and the actions are the synchronous stretches of       *)
(* verify() between its awaits.  JavaScript numbers are IEEE 754 doubles:  *)
(* the score arithmetic is modelled as such (53-bit significand, round to  *)
(* nearest, ties to even), because the code divides before it multiplies   *)
(* and the intermediate results are not exact.                             *)
(***************************************************************************)
EXTENDS Integers, Sequences, FiniteSets, TLC

VARIABLES fs, pc, results, ret, stack, sourceStructure, backendStructure,
          options, generatedFiles, disk

vars == <<fs, pc, results, ret, stack, sourceStructure, backendStructure,
          options, generatedFiles, disk>>

\* the options and the locals of scan() (src/src/commands/scan.js), and in
\* disk the directories scan has created and the files it has written;
\* verify() has none of them
genVars == <<options, generatedFiles, disk>>

scanVars == <<stack, sourceStructure, backendStructure, genVars>>

NotScanning ==
    /\ stack = "none"
    /\ sourceStructure = "none"
    /\ backendStructure = "none"
    /\ options = "none"
    /\ generatedFiles = "none"
    /\ disk = "none"

-----------------------------------------------------------------------------
(* Natural numbers of any size, as sequences of limbs (digits in base      *)
(* 2^14), most significant first, without leading zeros (<<>> is 0).       *)

Base == 2^14

Zeros(k) == [i \in 1..k |-> 0]

RECURSIVE StripZeros(_)
StripZeros(l) ==
    IF l = <<>> \/ l[1] # 0 THEN l ELSE StripZeros(Tail(l))

RECURSIVE NatLimbs(_)
NatLimbs(n) ==
    IF n = 0 THEN <<>> ELSE Append(NatLimbs(n \div Base), n % Base)

RECURSIVE LimbsNat(_)
LimbsNat(l) ==
    IF l = <<>> THEN 0
    ELSE Base * LimbsNat(SubSeq(l, 1, Len(l) - 1)) + l[Len(l)]

\* l * c for a small natural c, from the least significant limb with a carry
RECURSIVE MulCarry(_, _, _, _)
MulCarry(l, c, i, carry) ==
    IF i = 0 THEN NatLimbs(carry)
    ELSE LET v == l[i] * c + carry
         IN  Append(MulCarry(l, c, i - 1, v \div Base), v % Base)

MulSmall(l, c) == StripZeros(MulCarry(l, c, Len(l), 0))

\* long division of l by a small natural d: quotient limbs and remainder
RECURSIVE DivStep(_, _, _, _, _)
DivStep(l, d, i, q, r) ==
    IF i > Len(l) THEN [q |-> StripZeros(q), r |-> r]
    ELSE LET v == r * Base + l[i]
         IN  DivStep(l, d, i + 1, Append(q, v \div d), v % d)

DivSmall(l, d) == DivStep(l, d, 1, <<>>, 0)

\* a + b for two limb sequences of the same length, with a carry
RECURSIVE AddCarry(_, _, _, _)
AddCarry(a, b, i, carry) ==
    IF i = 0 THEN NatLimbs(carry)
    ELSE LET v == a[i] + b[i] + carry
         IN  Append(AddCarry(a, b, i - 1, v \div Base), v % Base)

AddLimbs(a, b) ==
    LET n  == IF Len(a) > Len(b) THEN Len(a) ELSE Len(b)
        pa == Zeros(n - Len(a)) \o a
        pb == Zeros(n - Len(b)) \o b
    IN  StripZeros(AddCarry(pa, pb, n, 0))

\* a < b for limb sequences without leading zeros
LessLimbs(a, b) ==
    IF Len(a) # Len(b) THEN Len(a) < Len(b)
    ELSE LET diff == {i \in 1..Len(a) : a[i] # b[i]}
         IN  /\ diff # {}
             /\ \E i \in diff : (\A j \in diff : i <= j) /\ a[i] < b[i]

\* the number of binary digits of l
BitLen(l) ==
    IF l = <<>> THEN 0
    ELSE 14 * (Len(l) - 1) + (CHOOSE k \in 1..14 : l[1] < 2^k /\ 2^(k - 1) <= l[1])

\* l * 2^k
ShiftLeft(l, k) ==
    IF l = <<>> THEN <<>> ELSE MulSmall(l, 2^(k % 14)) \o Zeros(k \div 14)

\* l \div 2^k, and whether a non-zero remainder was dropped
ShiftRight(l, k) ==
    LET drop == IF k \div 14 < Len(l) THEN k \div 14 ELSE Len(l)
        kept == SubSeq(l, 1, Len(l) - drop)
        res  == DivSmall(kept, 2^(k % 14))
    IN  [q |-> res.q,
         sticky |-> res.r # 0 \/ \E i \in (Len(l) - drop + 1)..Len(l) : l[i] # 0]

-----------------------------------------------------------------------------
(* A non-negative finite double is [m, e]: the significand m is a natural  *)
(* of exactly 53 binary digits and the value is m * 2^e; zero is           *)
(* [m |-> <<>>, e |-> 0].  The magnitudes that occur (0.01 .. 10000) are   *)
(* far from the subnormal and overflow ranges.                             *)

FZero == [m |-> <<>>, e |-> 0]

\* round the exact value n * 2^e (plus a non-zero tail when sticky) to a
\* double: to nearest, ties to even
RoundDouble(n, e, sticky) ==
    IF n = <<>> THEN FZero
    ELSE IF BitLen(n) <= 53
    THEN [m |-> ShiftLeft(n, 53 - BitLen(n)), e |-> e - (53 - BitLen(n))]
    ELSE LET cut   == ShiftRight(n, BitLen(n) - 54)
             half  == DivSmall(cut.q, 2)
             keep  == half.q
             tail  == sticky \/ cut.sticky
             up    == half.r = 1 /\ (tail \/ keep[Len(keep)] % 2 = 1)
             e2    == e + (BitLen(n) - 53)
             inc   == AddLimbs(keep, <<1>>)
         IN  IF ~up THEN [m |-> keep, e |-> e2]
             ELSE IF BitLen(inc) = 53 THEN [m |-> inc, e |-> e2]
             ELSE [m |-> DivSmall(inc, 2).q, e |-> e2 + 1]

\* an integer-valued double
FInt(n) == RoundDouble(NatLimbs(n), 0, FALSE)

\* x / d, d an integer-valued double, d > 0
FDivInt(x, d) ==
    IF x.m = <<>> THEN FZero
    ELSE LET k   == BitLen(NatLimbs(d)) + 2
             res == DivSmall(ShiftLeft(x.m, k), d)
         IN  RoundDouble(res.q, x.e - k, res.r # 0)

\* x * c, c an integer-valued double
FMulInt(x, c) ==
    IF x.m = <<>> \/ c = 0 THEN FZero
    ELSE RoundDouble(MulSmall(x.m, c), x.e, FALSE)

\* the significand of x brought to the smaller exponent of x and y
AlignedM(x, y) == ShiftLeft(x.m, x.e - (IF x.e < y.e THEN x.e ELSE y.e))

\* x + y
FAdd(x, y) ==
    IF x.m = <<>> THEN y
    ELSE IF y.m = <<>> THEN x
    ELSE RoundDouble(AddLimbs(AlignedM(x, y), AlignedM(y, x)),
                     IF x.e < y.e THEN x.e ELSE y.e, FALSE)

\* x < y
FLess(x, y) ==
    IF y.m = <<>> THEN FALSE
    ELSE IF x.m = <<>> THEN TRUE
    ELSE LessLimbs(AlignedM(x, y), AlignedM(y, x))

\* Math.min(x, y)
MathMin(x, y) == IF FLess(y, x) THEN y ELSE x

\* Math.round(x) for 0 <= x < 2^30: floor(x + 0.5), as an integer
MathRound(x) ==
    IF x.m = <<>> THEN 0
    ELSE IF x.e >= 0 THEN LimbsNat(ShiftLeft(x.m, x.e))
    ELSE IF 53 + x.e < 0 THEN 0
    ELSE LET twice == LimbsNat(ShiftRight(x.m, (0 - x.e) - 1).q)
         IN  (twice \div 2) + (twice % 2)

-----------------------------------------------------------------------------
(* Text.  A string is a sequence of atoms (indivisible pieces of text); no *)
(* atom of the vocabulary occurs inside another one or across the border   *)
(* of two others, so that "is a substring of" on the text is "is a         *)
(* contiguous subsequence of" on the atoms.  A file name (a path           *)
(* component) is a string, a path is a sequence of components, and the     *)
(* text of a file is a sequence of lines [indent, hashes, text]: the line  *)
(* starts with `indent` blanks, then `hashes` characters '#' (0 for a      *)
(* plain line), then white space, then `text`, whose first atom is not     *)
(* white space.  A line with no text is blank after its hashes.            *)

MD == ".md"

Name(s) == <<s>>
MdName(s) == <<s, MD>>

\* String.prototype.endsWith('.md')
EndsWithMd(name) == name # <<>> /\ name[Len(name)] = MD

\* path.basename(p)
Basename(p) == p[Len(p)]

\* path.basename(p, '.md')
BasenameNoMd(p) ==
    IF EndsWithMd(Basename(p)) /\ Len(Basename(p)) > 1
    THEN SubSeq(Basename(p), 1, Len(Basename(p)) - 1)
    ELSE Basename(p)

\* s occurs in t as a contiguous piece
IsInfix(s, t) ==
    \E i \in 0..(Len(t) - Len(s)) : SubSeq(t, i + 1, i + Len(s)) = s

\* String.prototype.includes on the text of a file ('#' never occurs in a
\* name, so only the text of the lines matters)
Includes(content, s) == \E i \in 1..Len(content) : IsInfix(s, content[i].text)

\* String.prototype.toLowerCase on the atoms that are written in two cases
Lower(a) ==
    CASE a = "PURPOSE"  -> "purpose"
      [] a = "Purpose"  -> "purpose"
      [] a = "OVERVIEW" -> "overview"
      [] a = "Overview" -> "overview"
      [] OTHER          -> a

-----------------------------------------------------------------------------
(* The file system under the project directory (fs):                       *)
(*   root     the regular files that exist in the project directory        *)
(*   text     the text of each of them                                     *)
(*   src      the source paths that exist (strings relative to the root)   *)
(*   context  "absent", "dir" or "file": what context is                   *)
(*   dirs     the directories under context/ (paths relative to it)        *)
(*   docs     the regular files under context/, in the order a directory   *)
(*            walk meets them: [path, text]                                *)

AGENTS == MdName("AGENTS")
CLAUDE == MdName("CLAUDE")
CURSORRULES == Name(".cursorrules")

ExistsInRoot(name) == name \in fs.root

ContextExists == fs.context # "absent"
ContextIsDirectory == fs.context = "dir"

DocAt(p) == {i \in 1..Len(fs.docs) : fs.docs[i].path = p}

\* fs.existsSync / fs.statSync(..).isDirectory() / fs.readFileSync below context/
Exists(p) == ContextIsDirectory /\ (p \in fs.dirs \/ DocAt(p) # {})
IsDirectory(p) == ContextIsDirectory /\ p \in fs.dirs
ReadFile(p) == fs.docs[CHOOSE i \in DocAt(p) : TRUE].text

IsPrefix(p, q) == Len(p) <= Len(q) /\ SubSeq(q, 1, Len(p)) = p

\* the names of the entries of directory p that hold files, in walk order
RECURSIVE EntriesFrom(_, _, _)
EntriesFrom(p, i, seen) ==
    IF i > Len(fs.docs) THEN <<>>
    ELSE LET q == fs.docs[i].path
             n == q[Len(p) + 1]
         IN  IF IsPrefix(p, q) /\ Len(q) > Len(p) /\ n \notin seen
             THEN <<n>> \o EntriesFrom(p, i + 1, seen \cup {n})
             ELSE EntriesFrom(p, i + 1, seen)

RECURSIVE SetToSeq(_)
SetToSeq(S) ==
    IF S = {} THEN <<>>
    ELSE LET x == CHOOSE y \in S : TRUE IN <<x>> \o SetToSeq(S \ {x})

\* fs.readdirSync(p): the entries that hold files, then the empty directories
ReadDir(p) ==
    LET holding == EntriesFrom(p, 1, {})
        empty   == {d[Len(p) + 1] : d \in {e \in fs.dirs :
                       IsPrefix(p, e) /\ Len(e) = Len(p) + 1}}
                   \ {holding[i] : i \in 1..Len(holding)}
    IN  holding \o SetToSeq(empty)

-----------------------------------------------------------------------------
(* Findings and the result accumulator (verify.js:26-42).                  *)

\* one entry of results.structure / content / crossReferences; the message
\* is kept as its template (kind) and the values substituted into it
Finding(type, kind, subject, ref, n, total, pct) ==
    [type |-> type, kind |-> kind, subject |-> subject, ref |-> ref,
     n |-> n, total |-> total, pct |-> pct]

Msg(type, kind) == Finding(type, kind, <<>>, <<>>, 0, 0, 0)
MsgOf(type, kind, subject) == Finding(type, kind, subject, <<>>, 0, 0, 0)
MsgCount(type, kind, n) == Finding(type, kind, <<>>, <<>>, n, 0, 0)

EmptyResults ==
    [structure |-> <<>>, content |-> <<>>, crossReferences |-> <<>>,
     scores |-> [completeness |-> 0, structure |-> 0, content |-> 0,
                 references |-> 0],
     files |-> [domains |-> <<>>, architectures |-> <<>>, patterns |-> <<>>,
                workflows |-> <<>>]]

CountType(items, type) ==
    Cardinality({i \in 1..Len(items) : items[i].type = type})

\* a warning weighing as much as a success
calculateScoreWarningsFull(items) ==
    IF Len(items) = 0 THEN 0
    ELSE LET successCount == CountType(items, "success")
             warningCount == CountType(items, "warning")
             totalScore   == (successCount * 10) + (warningCount * 10)
             maxScore     == Len(items) * 10
         IN  MathRound(FMulInt(FDivInt(FInt(totalScore), maxScore), 100))

calculateScore(items) ==
    IF Len(items) = 0 THEN 0
    ELSE LET successCount == CountType(items, "success")
             warningCount == CountType(items, "warning")
             totalScore   == (successCount * 10) + (warningCount * 5)
             maxScore     == Len(items) * 10
         IN  MathRound(FMulInt(FDivInt(FInt(totalScore), maxScore), 100))

-----------------------------------------------------------------------------
(* verifyStructure (verify.js:80-184).                                     *)

REQUIRED_ROOT == <<AGENTS, CLAUDE, CURSORRULES>>
REQUIRED_DIRECTORIES == <<Name("templates")>>

RootFileFinding(file) ==
    IF ExistsInRoot(file)
    THEN MsgOf("success", "exists in project root", <<file>>)
    ELSE MsgOf("error", "missing in project root", <<file>>)

\* "Check CLAUDE.md references AGENTS.md", and the same for .cursorrules
ReferenceFinding(file) ==
    IF ~ExistsInRoot(file) THEN <<>>
    ELSE IF Includes(fs.text[file], AGENTS)
    THEN <<MsgOf("success", "references AGENTS.md", <<file>>)>>
    ELSE <<MsgOf("warning", "does not reference AGENTS.md", <<file>>)>>

\* the subdirectory check without the isDirectory test of line 146
SubdirFindingExists(subdir) ==
    IF Exists(<<subdir>>)
    THEN MsgOf("success", "context/subdir/ directory exists", <<subdir>>)
    ELSE MsgOf("warning", "context/subdir/ directory missing", <<subdir>>)

SubdirFinding(subdir) ==
    IF Exists(<<subdir>>) /\ IsDirectory(<<subdir>>)
    THEN MsgOf("success", "context/subdir/ directory exists", <<subdir>>)
    ELSE MsgOf("warning", "context/subdir/ directory missing", <<subdir>>)

templatesPath == <<Name("templates")>>

\* fs.readdirSync(templatesPath).filter(f => f.endsWith('.md'))
templateFiles == SelectSeq(ReadDir(templatesPath), EndsWithMd)

TemplateFilesFinding ==
    IF ~Exists(templatesPath) THEN <<>>
    ELSE IF Len(templateFiles) > 0
    THEN <<MsgCount("success", "context/templates/ has n template file(s)",
                    Len(templateFiles))>>
    ELSE <<Msg("warning", "context/templates/ directory is empty")>>

\* readdirSync of a path that is a regular file throws ENOTDIR
StructureThrows ==
    ContextIsDirectory /\ Exists(templatesPath) /\ ~IsDirectory(templatesPath)

StructureFindings ==
    [i \in 1..Len(REQUIRED_ROOT) |-> RootFileFinding(REQUIRED_ROOT[i])]
    \o ReferenceFinding(CLAUDE)
    \o ReferenceFinding(CURSORRULES)
    \o (IF ContextExists /\ ContextIsDirectory
        THEN <<Msg("success", "context/ directory exists")>>
             \o [i \in 1..Len(REQUIRED_DIRECTORIES) |->
                    SubdirFinding(REQUIRED_DIRECTORIES[i])]
             \o (IF StructureThrows THEN <<>> ELSE TemplateFilesFinding)
        ELSE <<Msg("error", "context/ directory does not exist")>>)

verifyStructure(res) ==
    IF StructureThrows
    THEN [res EXCEPT !.structure = res.structure \o StructureFindings]
    ELSE LET structure == res.structure \o StructureFindings
         IN  [res EXCEPT !.structure = structure,
                         !.scores.structure = calculateScore(structure)]

-----------------------------------------------------------------------------
(* verifyContent and verifyFileContent (verify.js:186-346).                *)

REQUIRED_SECTIONS ==
    [domain       |-> <<"Purpose", "Key Entities", "Business Rules",
                        "Code Locations", "Dependencies", "Common Gotchas">>,
     architecture |-> <<"Overview", "Configuration", "Code Locations",
                        "Error Handling", "Dependencies">>,
     pattern      |-> <<"Overview", "When to Use", "Standard Implementation",
                        "Best Practices", "Anti-Patterns">>,
     workflow     |-> <<"Overview", "Prerequisites", "Workflow Steps",
                        "Checklist", "Troubleshooting">>]

\* new RegExp(`^#{1,4}\\s*${escaped}`, 'mi').test(content): ^ is the start
\* of line i, #{1,4} its hashes, and \s* the white space up to the text of
\* line j, which is line i or, when line i and the lines between are blank
\* after the hashes, a later line that has no hashes
hasSection(content, section) ==
    \E i \in 1..Len(content) :
        /\ content[i].indent = 0
        /\ content[i].hashes >= 1
        /\ content[i].hashes <= 4
        /\ \E j \in i..Len(content) :
              /\ \A k \in i..(j - 1) :
                    content[k].text = <<>> /\ (k > i => content[k].hashes = 0)
              /\ (j > i => content[j].hashes = 0)
              /\ content[j].text # <<>>
              /\ Lower(content[j].text[1]) = Lower(section)

foundCount(content, type) ==
    Cardinality({k \in 1..Len(REQUIRED_SECTIONS[type]) :
                    hasSection(content, REQUIRED_SECTIONS[type][k])})

\* the percentage truncated instead of rounded
percentageTruncated(found, required) == (found * 100) \div required

percentage(found, required) ==
    MathRound(FMulInt(FDivInt(FInt(found), required), 100))

\* verifyFileContent with the warning threshold at 60 instead of 75
verifyFileContentAt60(filePath, type, fileName) ==
    LET content  == ReadFile(filePath)
        required == Len(REQUIRED_SECTIONS[type])
        found    == foundCount(content, type)
        pct      == percentage(found, required)
    IN  IF found = required
        THEN Finding("success", "all required sections present",
                     fileName, <<>>, 0, required, 0)
        ELSE IF pct >= 60
        THEN Finding("warning", "n/total sections found (pct%)",
                     fileName, <<>>, found, required, pct)
        ELSE Finding("error", "only n/total sections found (pct%)",
                     fileName, <<>>, found, required, pct)

\* the finding verifyFileContent pushes for one file
verifyFileContent(filePath, type, fileName) ==
    LET content  == ReadFile(filePath)
        required == Len(REQUIRED_SECTIONS[type])
        found    == foundCount(content, type)
        allFound == \A k \in 1..required :
                        hasSection(content, REQUIRED_SECTIONS[type][k])
        pct      == percentage(found, required)
    IN  IF allFound
        THEN Finding("success", "all required sections present",
                     fileName, <<>>, 0, required, 0)
        ELSE IF pct >= 75
        THEN Finding("warning", "n/total sections found (pct%)",
                     fileName, <<>>, found, required, pct)
        ELSE Finding("error", "only n/total sections found (pct%)",
                     fileName, <<>>, found, required, pct)

\* the domain files: flat .md entries and <entry>/CONTEXT.md of subdirectories,
\* as [name, path]
CONTEXT_MD == MdName("CONTEXT")

RECURSIVE DomainFilesFrom(_, _)
DomainFilesFrom(entries, i) ==
    IF i > Len(entries) THEN <<>>
    ELSE LET entry     == entries[i]
             entryPath == <<Name("domains"), entry>>
             rest      == DomainFilesFrom(entries, i + 1)
         IN  IF IsDirectory(entryPath)
             THEN IF Exists(entryPath \o <<CONTEXT_MD>>)
                  THEN <<[name |-> <<entry, CONTEXT_MD>>,
                          path |-> entryPath \o <<CONTEXT_MD>>]>> \o rest
                  ELSE rest
             ELSE IF EndsWithMd(entry)
             THEN <<[name |-> <<entry>>, path |-> entryPath]>> \o rest
             ELSE rest

domainFiles == DomainFilesFrom(ReadDir(<<Name("domains")>>), 1)

\* the files of a flat category: readdirSync(dir).filter(f => f.endsWith('.md'))
FlatFiles(dir) ==
    LET names == SelectSeq(ReadDir(<<dir>>), EndsWithMd)
    IN  [i \in 1..Len(names) |-> [name |-> <<names[i]>>,
                                  path |-> <<dir, names[i]>>]]

CategoryFiles(dir) ==
    IF dir = Name("domains") THEN domainFiles ELSE FlatFiles(dir)

FileNames(files) == [i \in 1..Len(files) |-> files[i].name]

\* a category block without the existsSync test of its directory
CategoryFindingsUnguarded(dir, type) ==
    LET files == CategoryFiles(dir)
    IN  IF Len(files) = 0
        THEN <<MsgOf("warning", "No files found", <<dir>>)>>
        ELSE <<Finding("success", "Found n file(s)", <<dir>>, <<>>,
                       Len(files), 0, 0)>>
             \o [i \in 1..Len(files) |->
                    verifyFileContent(files[i].path, type, files[i].name)]

\* the findings one category block of verifyContent pushes
CategoryFindings(dir, type) ==
    LET files == CategoryFiles(dir)
    IN  IF ~Exists(<<dir>>) THEN <<>>
        ELSE IF Len(files) = 0
        THEN <<MsgOf("warning", "No files found", <<dir>>)>>
        ELSE <<Finding("success", "Found n file(s)", <<dir>>, <<>>,
                       Len(files), 0, 0)>>
             \o [i \in 1..Len(files) |->
                    verifyFileContent(files[i].path, type, files[i].name)]

\* results.files.<category> is assigned only when the directory exists
CategoryInventory(dir, old) ==
    IF Exists(<<dir>>) THEN FileNames(CategoryFiles(dir)) ELSE old

verifyContent(res) ==
    IF ~ContextExists
    THEN [res EXCEPT !.content = res.content \o
              <<Msg("error", "Cannot verify content: context/ directory does not exist")>>]
    ELSE LET content == res.content
                 \o CategoryFindings(Name("domains"), "domain")
                 \o CategoryFindings(Name("architecture"), "architecture")
                 \o CategoryFindings(Name("patterns"), "pattern")
                 \o CategoryFindings(Name("workflows"), "workflow")
         IN  [res EXCEPT
                 !.content = content,
                 !.files.domains =
                     CategoryInventory(Name("domains"), res.files.domains),
                 !.files.architectures =
                     CategoryInventory(Name("architecture"), res.files.architectures),
                 !.files.patterns =
                     CategoryInventory(Name("patterns"), res.files.patterns),
                 !.files.workflows =
                     CategoryInventory(Name("workflows"), res.files.workflows),
                 !.scores.content = calculateScore(content)]

-----------------------------------------------------------------------------
(* verifyCrossReferences, getAllContextFiles and findOrphanedFiles         *)
(* (verify.js:348-506).                                                    *)

\* getAllContextFiles: the paths (relative to context/) the walk collects
RECURSIVE walk(_)
RECURSIVE walkEntries(_, _, _)

\* the walk that goes into templates as into any directory
RECURSIVE walkEntriesTemplatesToo(_, _, _)
walkEntriesTemplatesToo(dir, entries, i) ==
    IF i > Len(entries) THEN <<>>
    ELSE LET entry    == entries[i]
             fullPath == Append(dir, entry)
             rest     == walkEntriesTemplatesToo(dir, entries, i + 1)
         IN  IF IsDirectory(fullPath)
             THEN walk(fullPath) \o rest
             ELSE IF EndsWithMd(entry) THEN <<fullPath>> \o rest
             ELSE rest

walkEntries(dir, entries, i) ==
    IF i > Len(entries) THEN <<>>
    ELSE LET entry    == entries[i]
             fullPath == Append(dir, entry)
             rest     == walkEntries(dir, entries, i + 1)
         IN  IF IsDirectory(fullPath) /\ entry # Name("templates")
             THEN walk(fullPath) \o rest
             ELSE IF EndsWithMd(entry) THEN <<fullPath>> \o rest
             ELSE rest

walk(dir) == walkEntries(dir, ReadDir(dir), 1)

getAllContextFiles == walk(<<>>)

\* readdirSync of a context that is a regular file throws ENOTDIR
CrossReferencesThrow == ContextExists /\ ~ContextIsDirectory

\* the alternatives of the first group of filePathPattern
RootWords == {"src", "lib", "test", "tests", "component", "components",
              "util", "utils", "service", "services", "model", "models",
              "view", "views"}

\* atoms that start with '/' and continue with characters of [\w\-./]
PathBodies == {"/x/ok", "/x/missing"}

\* atoms that are a '.' followed by word characters
Extensions == {".ts", MD}

\* atoms that end with a word character (no \b between them and a root word)
WordAtoms == {"my", "auth", "tasks", "CONTEXT", "README"} \cup RootWords

\* the positions where filePathPattern matches in a line
MatchStarts(text) ==
    {i \in 1..(Len(text) - 2) :
        /\ text[i] \in RootWords
        /\ (i = 1 \/ text[i - 1] \notin WordAtoms)
        /\ text[i + 1] \in PathBodies
        /\ text[i + 2] \in Extensions}

LineMatches(text) ==
    LET starts == MatchStarts(text)
        nth(k) == CHOOSE i \in starts :
                      Cardinality({j \in starts : j < i}) = k - 1
    IN  [k \in 1..Cardinality(starts) |-> SubSeq(text, nth(k), nth(k) + 2)]

\* content.match(filePathPattern) || []
RECURSIVE MatchesFrom(_, _)
MatchesFrom(content, i) ==
    IF i > Len(content) THEN <<>>
    ELSE LineMatches(content[i].text) \o MatchesFrom(content, i + 1)

matches(content) == MatchesFrom(content, 1)

\* fs.existsSync(path.join(projectDir, match))
SourceExists(match) == match \in fs.src

\* the per-reference findings of one file, a broken path reported once
FileReferenceFindingsOnce(file) ==
    LET found  == matches(ReadFile(file))
        first  == {k \in 1..Len(found) :
                      /\ ~SourceExists(found[k])
                      /\ \A j \in 1..(k - 1) : found[j] # found[k]}
        nth(k) == CHOOSE i \in first : Cardinality({j \in first : j < i}) = k - 1
    IN  [k \in 1..Cardinality(first) |->
            Finding("warning", "references non-existent file",
                    <<Basename(file)>>, found[nth(k)], 0, 0, 0)]

\* the per-reference findings of one file
FileReferenceFindings(file) ==
    LET found  == matches(ReadFile(file))
        broken == SelectSeq(found, LAMBDA m : ~SourceExists(m))
    IN  [k \in 1..Len(broken) |->
            Finding("warning", "references non-existent file",
                    <<Basename(file)>>, broken[k], 0, 0, 0)]

FileValidCount(file) ==
    LET found == matches(ReadFile(file))
    IN  Cardinality({k \in 1..Len(found) : SourceExists(found[k])})

RECURSIVE ReferenceFindingsFrom(_, _)
ReferenceFindingsFrom(files, i) ==
    IF i > Len(files) THEN <<>>
    ELSE FileReferenceFindings(files[i]) \o ReferenceFindingsFrom(files, i + 1)

RECURSIVE ValidFrom(_, _)
ValidFrom(files, i) ==
    IF i > Len(files) THEN 0
    ELSE FileValidCount(files[i]) + ValidFrom(files, i + 1)

\* referenced without the `other !== file` test of line 475
referencedBySelf(file, allContextFiles) ==
    LET fileName == BasenameNoMd(file)
        inAny    == \E k \in 1..Len(allContextFiles) :
                        \/ Includes(ReadFile(allContextFiles[k]), fileName)
                        \/ Includes(ReadFile(allContextFiles[k]), Basename(file))
        inMain(main) ==
            /\ ExistsInRoot(main)
            /\ \/ Includes(fs.text[main], fileName)
               \/ Includes(fs.text[main], Basename(file))
    IN  inAny \/ inMain(CLAUDE) \/ inMain(AGENTS)

\* whether findOrphanedFiles finds the file referenced
referenced(file, allContextFiles) ==
    LET fileName == BasenameNoMd(file)
        inOther  == \E k \in 1..Len(allContextFiles) :
                        /\ allContextFiles[k] # file
                        /\ \/ Includes(ReadFile(allContextFiles[k]), fileName)
                           \/ Includes(ReadFile(allContextFiles[k]), Basename(file))
        inMain(main) ==
            /\ ExistsInRoot(main)
            /\ \/ Includes(fs.text[main], fileName)
               \/ Includes(fs.text[main], Basename(file))
    IN  inOther \/ inMain(CLAUDE) \/ inMain(AGENTS)

findOrphanedFiles(allContextFiles) ==
    SelectSeq(allContextFiles, LAMBDA f : ~referenced(f, allContextFiles))

\* the summary of the valid references pushed whatever the count
validSummaryAlways(validReferences) ==
    <<MsgCount("success", "n valid file reference(s) found", validReferences)>>

\* the summary of the valid references (verify.js:382-387)
validSummary(validReferences) ==
    IF validReferences > 0
    THEN <<MsgCount("success", "n valid file reference(s) found",
                    validReferences)>>
    ELSE <<>>

\* the summary of the broken references (verify.js:389-399)
brokenSummary(brokenReferences, validReferences) ==
    IF brokenReferences = 0 /\ validReferences > 0
    THEN <<Msg("success", "No broken file references detected")>>
    ELSE IF brokenReferences > 0
    THEN <<MsgCount("warning", "n broken file reference(s) detected",
                    brokenReferences)>>
    ELSE <<>>

\* the orphan step listing only the first orphan
orphanFindingsFirstOnly(orphaned) ==
    IF Len(orphaned) = 0
    THEN <<Msg("success", "No orphaned context files detected")>>
    ELSE <<MsgCount("warning", "n orphaned context file(s) detected",
                    Len(orphaned)),
           MsgOf("info", "orphaned file", orphaned[1])>>

\* the orphan step (verify.js:401-419)
orphanFindings(orphaned) ==
    IF Len(orphaned) = 0
    THEN <<Msg("success", "No orphaned context files detected")>>
    ELSE <<MsgCount("warning", "n orphaned context file(s) detected",
                    Len(orphaned))>>
         \o [k \in 1..Len(orphaned) |->
                MsgOf("info", "orphaned file", orphaned[k])]

CrossReferenceFindings ==
    LET allContextFiles  == getAllContextFiles
        perReference     == ReferenceFindingsFrom(allContextFiles, 1)
        brokenReferences == Len(perReference)
        validReferences  == ValidFrom(allContextFiles, 1)
        orphaned         == findOrphanedFiles(allContextFiles)
    IN  perReference
        \o validSummary(validReferences)
        \o brokenSummary(brokenReferences, validReferences)
        \o orphanFindings(orphaned)

verifyCrossReferences(res) ==
    IF ~ContextExists THEN res
    ELSE LET crossReferences == res.crossReferences \o CrossReferenceFindings
         IN  [res EXCEPT !.crossReferences = crossReferences,
                         !.scores.references = calculateScore(crossReferences)]

-----------------------------------------------------------------------------
(* calculateCompleteness (verify.js:508-543).                              *)

weights == [structure |-> 25, content |-> 35, references |-> 20,
            documentation |-> 20]

\* calculateCompleteness without its early return (no file is inventoried
\* when context/ does not exist, so the documentation term is 0)
completenessUnguarded(res) ==
    LET score == FAdd(FAdd(FAdd(FMulInt(FDivInt(FInt(res.scores.structure), 100), weights.structure),
                                FMulInt(FDivInt(FInt(res.scores.content), 100), weights.content)),
                           FMulInt(FDivInt(FInt(res.scores.references), 100), weights.references)),
                      FInt(0))
    IN  [res EXCEPT !.scores.completeness = MathRound(score)]

\* the references term subtracted
completenessLessReferences(res) ==
    IF ~ContextExists THEN [res EXCEPT !.scores.completeness = 0]
    ELSE LET score2 == FAdd(FMulInt(FDivInt(FInt(res.scores.structure), 100),
                                    weights.structure),
                            FMulInt(FDivInt(FInt(res.scores.content), 100),
                                    weights.content))
             score3 == FAdd(score2, FMulInt(FDivInt(FInt(100 - res.scores.references), 100),
                                            weights.references))
             totalDocs == Len(res.files.domains) + Len(res.files.architectures)
                          + Len(res.files.patterns) + Len(res.files.workflows)
             docScore == MathMin(FMulInt(FDivInt(FInt(totalDocs), 10), 100),
                                 FInt(100))
             score4 == FAdd(score3, FMulInt(FDivInt(docScore, 100),
                                            weights.documentation))
         IN  [res EXCEPT !.scores.completeness = MathRound(score4)]

calculateCompleteness(res) ==
    IF ~ContextExists THEN [res EXCEPT !.scores.completeness = 0]
    ELSE LET structureScore == res.scores.structure
             contentScore   == res.scores.content
             refScore       == res.scores.references
             score1 == FAdd(FInt(0), FMulInt(FDivInt(FInt(structureScore), 100),
                                             weights.structure))
             score2 == FAdd(score1, FMulInt(FDivInt(FInt(contentScore), 100),
                                            weights.content))
             score3 == FAdd(score2, FMulInt(FDivInt(FInt(refScore), 100),
                                            weights.references))
             totalDocs == Len(res.files.domains) + Len(res.files.architectures)
                          + Len(res.files.patterns) + Len(res.files.workflows)
             docScore == MathMin(FMulInt(FDivInt(FInt(totalDocs), 10), 100),
                                 FInt(100))
             score4 == FAdd(score3, FMulInt(FDivInt(docScore, 100),
                                            weights.documentation))
         IN  [res EXCEPT !.scores.completeness = MathRound(score4)]

-----------------------------------------------------------------------------
(* The project directories the model is run on.                            *)

\* a heading line of level n and a plain line
Heading(n, text) == [indent |-> 0, hashes |-> n, text |-> text]
Plain(text) == [indent |-> 0, hashes |-> 0, text |-> text]
Indented(n, text) == [indent |-> 1, hashes |-> n, text |-> text]

File(path, text) == [path |-> path, text |-> text]

RootNames == {AGENTS, CLAUDE, CURSORRULES}

\* every directory on the way to a file
RECURSIVE Ancestors(_)
Ancestors(p) ==
    IF Len(p) <= 1 THEN {}
    ELSE {SubSeq(p, 1, Len(p) - 1)} \cup Ancestors(SubSeq(p, 1, Len(p) - 1))

DirsOf(docs) == UNION {Ancestors(docs[i].path) : i \in 1..Len(docs)}

Project(root, text, src, context, emptyDirs, docs) ==
    [root |-> root,
     text |-> [n \in RootNames |-> IF n \in root THEN text[n] ELSE <<>>],
     src |-> src, context |-> context,
     dirs |-> emptyDirs \cup DirsOf(docs), docs |-> docs]

\* a file with the first Len - missing required sections of its type
SectionLines(type, missing) ==
    [k \in 1..(Len(REQUIRED_SECTIONS[type]) - missing) |->
        Heading(2, <<REQUIRED_SECTIONS[type][k]>>)]

\* the text of a root file that names AGENTS.md, and of one that does not
NamesAgents == <<Plain(<<"See ">> \o AGENTS)>>
NoText == <<>>

\* the source tree: src/x/ok.ts exists, src/x/missing.ts does not
OkRef == <<"src", "/x/ok", ".ts">>
MissingRef == <<"src", "/x/missing", ".ts">>
Sources == {OkRef}

\* what context/ and context/templates are: [context, emptyDirs, docs]
Layout(context, emptyDirs, docs) ==
    [context |-> context, emptyDirs |-> emptyDirs, docs |-> docs]

DomainDoc == File(<<Name("domains"), MdName("auth")>>, SectionLines("domain", 0))

Templates ==
    { <<>>,                                                  \* no templates
      <<File(templatesPath, NoText)>>,                       \* a regular file
      <<File(templatesPath \o <<Name("notes.txt")>>, NoText)>>,
      <<File(templatesPath \o <<MdName("DOMAIN")>>, SectionLines("domain", 0))>> }

Layouts ==
    {Layout("absent", {}, <<>>), Layout("file", {}, <<>>)}
    \cup {Layout("dir", e, t \o d) :
             e \in {{}, {templatesPath}}, t \in Templates,
             d \in {<<>>, <<DomainDoc>>}}

WellFormed(l) ==
    \* a path is a directory or a regular file, not both
    \A i \in 1..Len(l.docs) : l.docs[i].path \notin l.emptyDirs \cup DirsOf(l.docs)

StructureProjects ==
    {Project(root, [n \in RootNames |-> IF n \in refs THEN NamesAgents ELSE NoText],
             Sources, l.context, l.emptyDirs, l.docs) :
        root \in SUBSET RootNames, refs \in SUBSET {CLAUDE, CURSORRULES},
        l \in {x \in Layouts : WellFormed(x)}}

\* the most documentation files of a modelled project, and the most required
\* sections a modelled file lacks
MaxDocs == 3
MaxMissing == 2

AddLines(doc, lines) == [doc EXCEPT !.text = @ \o lines]

\* what a category directory holds: it is absent, empty, or has one file that
\* lacks the last 0..MaxMissing required sections
Holding(emptyDirs, docs) == [emptyDirs |-> emptyDirs, docs |-> docs]

FlatOptions(dir, type, name) ==
    {Holding({}, <<>>), Holding({<<dir>>}, <<>>)}
    \cup {Holding({}, <<File(<<dir, MdName(name)>>, SectionLines(type, m))>>) :
             m \in 0..MaxMissing}

\* domains/ may also hold a subdirectory, with or without a CONTEXT.md
DomainOptions ==
    FlatOptions(Name("domains"), "domain", "auth")
    \cup {Holding({<<Name("domains")>>, <<Name("domains"), Name("tasks")>>}, <<>>)}
    \cup {Holding({}, <<File(<<Name("domains"), Name("tasks"), CONTEXT_MD>>,
                             SectionLines("domain", m))>>) : m \in 0..MaxMissing}

\* architecture/ may also hold only a file that is no .md file
ArchitectureOptions ==
    FlatOptions(Name("architecture"), "architecture", "auth")
    \cup {Holding({}, <<File(<<Name("architecture"), Name("notes.txt")>>, NoText)>>)}

\* the root files: none, or all three with CLAUDE.md and .cursorrules naming
\* AGENTS.md
NoRoot == [root |-> {}, text |-> [n \in RootNames |-> NoText]]
FullRoot == [root |-> RootNames,
             text |-> [n \in RootNames |-> IF n = AGENTS THEN NoText ELSE NamesAgents]]

\* one holding per category, in the order the walk meets them
Holdings ==
    {q \in ArchitectureOptions \X DomainOptions
           \X FlatOptions(Name("patterns"), "pattern", "auth-flow")
           \X FlatOptions(Name("workflows"), "workflow", "deploy") :
        Len(q[1].docs) + Len(q[2].docs) + Len(q[3].docs) + Len(q[4].docs) <= MaxDocs}

\* the files of the holdings; the first one also says `extra`
HoldingDocs(q, extra) ==
    LET docs == q[1].docs \o q[2].docs \o q[3].docs \o q[4].docs
    IN  IF docs = <<>> THEN <<>>
        ELSE <<AddLines(Head(docs), extra)>> \o Tail(docs)

ContentProjects ==
    {Project(r.root, r.text, Sources, "dir",
             q[1].emptyDirs \cup q[2].emptyDirs \cup q[3].emptyDirs \cup q[4].emptyDirs,
             HoldingDocs(q, extra)) :
        r \in {NoRoot, FullRoot}, q \in Holdings,
        extra \in {<<>>, <<Plain(<<"See ">> \o OkRef)>>}}

\* files that name one another: the candidates, and what a file may say
Candidates ==
    << File(<<MdName("README")>>, NoText),
       File(<<Name("architecture"), MdName("auth")>>, SectionLines("architecture", 0)),
       File(<<Name("domains"), MdName("auth")>>, SectionLines("domain", 0)),
       File(<<Name("domains"), Name("tasks"), CONTEXT_MD>>, SectionLines("domain", 0)),
       File(<<Name("patterns"), <<"auth", "-flow", MD>>>>, SectionLines("pattern", 0)) >>

Mentions ==
    { <<>>,
      <<Plain(<<"see ", "auth">>)>>,
      <<Plain(<<"see ", "auth", "-flow", MD>>)>>,
      <<Plain(<<"see ", "CONTEXT">>)>> }

\* the chosen candidates, in their order, each with what it says
RECURSIVE Chosen(_, _, _)
Chosen(S, says, i) ==
    IF i > Len(Candidates) THEN <<>>
    ELSE IF i \in S THEN <<AddLines(Candidates[i], says[i])>> \o Chosen(S, says, i + 1)
    ELSE Chosen(S, says, i + 1)

Selections == {S \in SUBSET (1..Len(Candidates)) : Cardinality(S) <= MaxDocs}

\* the root files as entry points: none, a CLAUDE.md that names auth, an
\* AGENTS.md that names README.md
ClaudeRoot == [root |-> {CLAUDE},
               text |-> [n \in RootNames |-> <<Plain(<<"read ", "auth">>)>>]]
AgentsRoot == [root |-> {AGENTS},
               text |-> [n \in RootNames |-> <<Plain(<<"read ", "README", MD>>)>>]]

MentionProjects ==
    UNION {{Project(r.root, r.text, Sources, "dir", {}, Chosen(S, says, 1)) :
               says \in [S -> Mentions], r \in {NoRoot, ClaudeRoot, AgentsRoot}} :
           S \in Selections}

\* files that refer to source paths
PathReferences ==
    { <<>>,
      <<Plain(<<"See ">> \o OkRef)>>,
      <<Plain(<<"See ">> \o MissingRef)>>,
      <<Plain(<<"See ">> \o MissingRef), Plain(MissingRef)>>,
      <<Plain(OkRef \o <<" and ">> \o MissingRef \o <<" and ">> \o OkRef)>>,
      <<Plain(<<"my">> \o OkRef)>>,
      <<Plain(<<"docs", "/x/missing", ".ts">>)>>,
      <<Plain(<<"See ", "lib", "/x/missing", ".ts">>)>> }

ReferenceProjects ==
    {Project(NoRoot.root, NoRoot.text, Sources, "dir", {},
             <<AddLines(Candidates[2], x)>>
             \o (IF both THEN <<AddLines(Candidates[3], y)>> ELSE <<>>)) :
        x \in PathReferences, y \in PathReferences, both \in BOOLEAN}

\* a project whose content findings are 3 success and 17 warning: domains/
\* holds seventeen files that each lack one required section, architecture/
\* one complete file
TieNames ==
    <<"billing", "cart", "catalog", "checkout", "email", "inventory", "invoices",
      "orders", "payments", "pricing", "profiles", "reports", "returns",
      "search", "shipping", "support", "users">>

TieDocs ==
    <<Candidates[2]>>
    \o [i \in 1..Len(TieNames) |->
           File(<<Name("domains"), MdName(TieNames[i])>>, SectionLines("domain", 1))]

TieProjects == {Project(NoRoot.root, NoRoot.text, Sources, "dir", {}, TieDocs)}

\* template files that refer to a missing source path and name live files,
\* beside live files that name the template or nothing
TemplateTexts ==
    { <<>>,
      <<Plain(<<"See ">> \o MissingRef)>>,
      <<Plain(<<"see ", "auth">>)>>,
      <<Plain(<<"See ">> \o MissingRef \o <<" and ">> \o OkRef),
        Plain(<<"see ", "auth">>), Plain(<<"see ", "README", MD>>)>> }

TemplatePaths ==
    { templatesPath \o <<MdName("DOMAIN")>>,
      templatesPath \o <<Name("domains"), MdName("DOMAIN")>> }

LiveTexts == {<<>>, <<Plain(<<"like ", "DOMAIN">>)>>}

TemplateProjects ==
    UNION {{Project(NoRoot.root, NoRoot.text, Sources, "dir", {},
                    <<File(t, text)>> \o Chosen(S, says, 1)) :
               says \in [S -> LiveTexts], t \in TemplatePaths,
               text \in TemplateTexts} :
           S \in SUBSET {1, 2, 3}}

Projects ==
    StructureProjects \cup ContentProjects \cup MentionProjects
    \cup ReferenceProjects \cup TieProjects \cup TemplateProjects

-----------------------------------------------------------------------------
(* verify (verify.js:44-78).  verifyStructure, verifyContent and           *)
(* verifyCrossReferences contain no await, so each runs to its end when    *)
(* verify calls it; verify itself is suspended at its three awaits.        *)

Init ==
    /\ fs \in Projects
    /\ pc = "idle"
    /\ results = EmptyResults
    /\ ret = <<>>
    /\ NotScanning

\* verify is called: the accumulator is reset and verifyStructure runs
Verify ==
    /\ pc \in {"idle", "done", "threw"}
    /\ results' = verifyStructure(EmptyResults)
    /\ pc' = IF StructureThrows THEN "threw" ELSE "content"
    /\ ret' = <<>>
    /\ UNCHANGED <<fs, scanVars>>

\* verify stopping after verifyContent when it recorded an error
ResumeContentAbortsOnError ==
    /\ pc = "content"
    /\ results' = verifyContent(results)
    /\ pc' = IF CountType(results'.content, "error") > 0
             THEN "threw" ELSE "references"
    /\ UNCHANGED <<fs, ret, scanVars>>

\* verify resumes after the first await: verifyContent runs
ResumeContent ==
    /\ pc = "content"
    /\ results' = verifyContent(results)
    /\ pc' = "references"
    /\ UNCHANGED <<fs, ret, scanVars>>

\* verify resumes after the second await: verifyCrossReferences runs
ResumeCrossReferences ==
    /\ pc = "references"
    /\ IF CrossReferencesThrow
       THEN pc' = "threw" /\ UNCHANGED results
       ELSE pc' = "completeness" /\ results' = verifyCrossReferences(results)
    /\ UNCHANGED <<fs, ret, scanVars>>

\* verify resumes after the third await: calculateCompleteness, outputReport
\* (console output only) and return results
ResumeCompleteness ==
    /\ pc = "completeness"
    /\ results' = calculateCompleteness(results)
    /\ ret' = <<results'>>
    /\ UNCHANGED scanVars
    /\ pc' = "done"
    /\ UNCHANGED fs

Next == Verify \/ ResumeContent \/ ResumeCrossReferences \/ ResumeCompleteness

Spec == Init /\ [][Next]_vars

-----------------------------------------------------------------------------
(* verify run on a documentation tree, and the referenced source file      *)
(* src/x/missing.ts created by the environment after the run: results then *)
(* holds the result for the project without the file.                      *)

ReferencesInit ==
    /\ fs \in ReferenceProjects
    /\ pc = "idle"
    /\ results = EmptyResults
    /\ ret = <<>>
    /\ NotScanning

CreateReferenced ==
    /\ pc = "done"
    /\ MissingRef \notin fs.src
    /\ fs' = [fs EXCEPT !.src = @ \cup {MissingRef}]
    /\ pc' = "created"
    /\ UNCHANGED <<results, ret, scanVars>>

ReferencesNext == Next \/ CreateReferenced

SpecReferences == ReferencesInit /\ [][ReferencesNext]_vars

-----------------------------------------------------------------------------
(* Two invocations of verify on the same project in one process, the       *)
(* second started while the first is suspended at an await.  results is    *)
(* the one module-level binding (verify.js:26) both invocations assign and *)
(* read; here pc and ret are functions of the invocation.  ret[i] is the   *)
(* object the invocation returns as it is at the return.                   *)

Invocations == {1, 2}

OverlapInit ==
    /\ fs \in ReferenceProjects
    /\ pc = [i \in Invocations |-> "idle"]
    /\ results = EmptyResults
    /\ ret = [i \in Invocations |-> <<>>]
    /\ NotScanning

\* verify is called: results is assigned a new object, verifyStructure runs
InvokeVerify(i) ==
    /\ pc[i] = "idle"
    /\ results' = verifyStructure(EmptyResults)
    /\ pc' = [pc EXCEPT ![i] = IF StructureThrows THEN "threw" ELSE "content"]
    /\ UNCHANGED <<fs, ret, scanVars>>

\* the invocation resumes after its first await
InvocationContent(i) ==
    /\ pc[i] = "content"
    /\ results' = verifyContent(results)
    /\ pc' = [pc EXCEPT ![i] = "references"]
    /\ UNCHANGED <<fs, ret, scanVars>>

\* the invocation resumes after its second await
InvocationCrossReferences(i) ==
    /\ pc[i] = "references"
    /\ IF CrossReferencesThrow
       THEN pc' = [pc EXCEPT ![i] = "threw"] /\ UNCHANGED results
       ELSE /\ pc' = [pc EXCEPT ![i] = "completeness"]
            /\ results' = verifyCrossReferences(results)
    /\ UNCHANGED <<fs, ret, scanVars>>

\* the invocation resumes after its third await and returns results
InvocationCompleteness(i) ==
    /\ pc[i] = "completeness"
    /\ results' = calculateCompleteness(results)
    /\ ret' = [ret EXCEPT ![i] = <<results'>>]
    /\ pc' = [pc EXCEPT ![i] = "done"]
    /\ UNCHANGED <<fs, scanVars>>

OverlapNext ==
    \E i \in Invocations :
        \/ InvokeVerify(i)
        \/ InvocationContent(i)
        \/ InvocationCrossReferences(i)
        \/ InvocationCompleteness(i)

SpecOverlap == OverlapInit /\ [][OverlapNext]_vars

-----------------------------------------------------------------------------
(* verifyFileContent on its own: Init draws the text of the one domain     *)
(* file of the project, and one action applies verifyFileContent to it.    *)

\* the most lines of a drawn text
MaxLines == 2

SectionFile == <<Name("domains"), MdName("auth")>>

DrawnLines ==
    { Heading(1, <<"Purpose">>), Heading(4, <<"Purpose">>),
      Heading(5, <<"Purpose">>), Heading(2, <<"PURPOSE">>),
      Heading(2, <<"Purpose", "ful">>), Heading(2, <<"My ", "Purpose">>),
      Heading(2, <<>>), Indented(2, <<"Purpose">>), Indented(0, <<"Purpose">>),
      Plain(<<"Purpose">>), Plain(<<>>), Plain(<<"See ", "Purpose">>),
      Heading(2, <<"Key Entities">>) }

DrawnTexts == UNION {[1..n -> DrawnLines] : n \in 0..MaxLines}

SectionsInit ==
    /\ fs \in {Project({}, NoRoot.text, Sources, "dir", {},
                        <<File(SectionFile, text)>>) : text \in DrawnTexts}
    /\ pc = "file"
    /\ results = EmptyResults
    /\ ret = <<>>
    /\ NotScanning

SectionsApply ==
    /\ pc = "file"
    /\ results' = [results EXCEPT
                      !.content = Append(@, verifyFileContent(SectionFile, "domain",
                                                              MdName("auth")))]
    /\ pc' = "checked"
    /\ UNCHANGED <<fs, ret, scanVars>>

SpecSections == SectionsInit /\ [][SectionsApply]_vars

-----------------------------------------------------------------------------
(* calculateScore on its own: Init draws a finding sequence and the one    *)
(* action applies calculateScore to it, as verifyContent does to           *)
(* results.content.                                                        *)

\* the longest finding sequence drawn
MaxItems == 20

Repeat(type, n) == [k \in 1..n |-> Msg(type, "drawn")]

Items(s, w, e, i) ==
    Repeat("success", s) \o Repeat("warning", w) \o Repeat("error", e)
    \o Repeat("info", i)

ScoreInit ==
    /\ fs = Project({}, NoRoot.text, Sources, "dir", {}, <<>>)
    /\ pc = "score"
    /\ ret = <<>>
    /\ NotScanning
    /\ results \in
          {[EmptyResults EXCEPT !.content = Items(q[1], q[2], q[3], q[4])] :
              q \in {x \in (0..MaxItems) \X (0..MaxItems) \X (0..MaxItems)
                               \X (0..MaxItems) :
                        x[1] + x[2] + x[3] + x[4] <= MaxItems}}

ScoreApply ==
    /\ pc = "score"
    /\ results' = [results EXCEPT !.scores.content = calculateScore(results.content)]
    /\ pc' = "scored"
    /\ UNCHANGED <<fs, ret, scanVars>>

SpecScore == ScoreInit /\ [][ScoreApply]_vars

-----------------------------------------------------------------------------
(* calculateCompleteness on its own: Init draws the three scores and the   *)
(* documentation files, one action applies calculateCompleteness, and the  *)
(* others raise one of its four inputs by one and apply it again.          *)

\* the scores and the numbers of documentation files drawn
ScoreLevels == {0, 17, 33, 50, 67, 100}
DocLevels == {0, 4, 9}

\* the most documentation files counted
MaxDocCount == 12

Drawn(n) == [k \in 1..n |-> <<"context", "domains", "drawn">>]

Inputs == {"structure", "content", "references", "documentation"}

CompletenessInit ==
    /\ fs = Project({}, NoRoot.text, Sources, "dir", {}, <<>>)
    /\ pc = "inputs"
    /\ ret = <<>>
    /\ NotScanning
    /\ results \in
          {[EmptyResults EXCEPT !.scores.structure = q[1],
                                !.scores.content = q[2],
                                !.scores.references = q[3],
                                !.files.domains = Drawn(q[4])] :
              q \in ScoreLevels \X ScoreLevels \X ScoreLevels \X DocLevels}

\* calculateCompleteness is applied; pc names the input raised from here on
CompletenessApply ==
    /\ pc = "inputs"
    /\ results' = calculateCompleteness(results)
    /\ pc' \in Inputs
    /\ UNCHANGED <<fs, ret, scanVars>>

RaiseScore(input) ==
    /\ pc = input
    /\ results.scores[input] < 100
    /\ results' = calculateCompleteness(
                      [results EXCEPT !.scores[input] = @ + 1])
    /\ UNCHANGED <<fs, pc, ret, scanVars>>

RaiseStructure == RaiseScore("structure")
RaiseContent == RaiseScore("content")
RaiseReferences == RaiseScore("references")

RaiseDocumentation ==
    /\ pc = "documentation"
    /\ Len(results.files.domains) < MaxDocCount
    /\ results' = calculateCompleteness(
                      [results EXCEPT !.files.domains = Drawn(Len(@) + 1)])
    /\ UNCHANGED <<fs, pc, ret, scanVars>>

CompletenessNext ==
    \/ CompletenessApply
    \/ RaiseStructure
    \/ RaiseContent
    \/ RaiseReferences
    \/ RaiseDocumentation

SpecCompleteness == CompletenessInit /\ [][CompletenessNext]_vars

-----------------------------------------------------------------------------
(* Properties.                                                             *)

\* round(num / den) in exact arithmetic, halves rounded up
RoundHalfUp(num, den) == (2 * num + den) \div (2 * den)

\* C1: calculateScore returns 0 for the empty sequence and otherwise
\* round(100 * (10*successCount + 5*warningCount) / (10*totalCount)), error and
\* info findings counting only in totalCount; a non-empty all-success sequence
\* scores 100.
ScoreFormula(items) ==
    IF Len(items) = 0 THEN 0
    ELSE RoundHalfUp(100 * (10 * CountType(items, "success")
                            + 5 * CountType(items, "warning")),
                     10 * Len(items))

C1_ScoreIsFormula ==
    pc = "scored" =>
        /\ results.scores.content = ScoreFormula(results.content)
        /\ (Len(results.content) > 0
            /\ CountType(results.content, "success") = Len(results.content)
            => results.scores.content = 100)

\* C2: when context/ exists, completeness is
\* round(0.25*structure + 0.35*content + 0.20*references + 0.20*volume) with
\* volume = min(100, 10*N), N the number of names in results.files.
DocCount(res) ==
    Len(res.files.domains) + Len(res.files.architectures)
    + Len(res.files.patterns) + Len(res.files.workflows)

VolumeScore(n) == IF 10 * n < 100 THEN 10 * n ELSE 100

CompletenessFormula(res) ==
    RoundHalfUp(25 * res.scores.structure + 35 * res.scores.content
                + 20 * res.scores.references + 20 * VolumeScore(DocCount(res)),
                100)

C2_CompletenessIsFormula ==
    pc = "done" /\ ContextExists =>
        results.scores.completeness = CompletenessFormula(results)

\* the phases verify has been through
StructureDone == pc \in {"content", "references", "completeness", "done"}
ContentDone == pc \in {"references", "completeness", "done"}
CrossReferencesDone == pc \in {"completeness", "done"}

\* C3, as the specification words it: if context/ does not exist, the four scores verify returns
\* are all 0, whatever root files are present.
C3_AllScoresZero ==
    pc = "done" /\ ~ContextExists =>
        /\ ret[1].scores.structure = 0
        /\ ret[1].scores.content = 0
        /\ ret[1].scores.references = 0
        /\ ret[1].scores.completeness = 0

\* C3, as the code has it: if context/ does not exist, the content, references and
\* completeness scores verify returns are 0, and the structure score is 0
\* exactly when none of the required root files is present.
C3_ScoresWithoutContext ==
    pc = "done" /\ ~ContextExists =>
        /\ ret[1].scores.content = 0
        /\ ret[1].scores.references = 0
        /\ ret[1].scores.completeness = 0
        /\ (ret[1].scores.structure = 0 <=> fs.root = {})

C3_Witness ==
    /\ pc = "done"
    /\ ~ContextExists
    /\ fs.root = RootNames
    /\ ret[1].scores.structure > 0
    /\ ret[1].scores.completeness = 0

\* the files verifyContent examines, read off the directory tree: the .md
\* files directly in a category directory and domains/<dir>/CONTEXT.md
CategoryType(dir) ==
    CASE dir = Name("domains")      -> "domain"
      [] dir = Name("architecture") -> "architecture"
      [] dir = Name("patterns")     -> "pattern"
      [] dir = Name("workflows")    -> "workflow"

CategoryDirs ==
    {Name("domains"), Name("architecture"), Name("patterns"), Name("workflows")}

Examined ==
    {i \in 1..Len(fs.docs) :
        LET p == fs.docs[i].path
        IN  /\ ContextIsDirectory
            /\ Len(p) >= 2
            /\ p[1] \in CategoryDirs
            /\ \/ Len(p) = 2 /\ EndsWithMd(p[2])
               \/ Len(p) = 3 /\ p[1] = Name("domains") /\ p[3] = CONTEXT_MD}

ExaminedName(i) == Tail(fs.docs[i].path)
ExaminedType(i) == CategoryType(fs.docs[i].path[1])
RequiredCount(i) == Len(REQUIRED_SECTIONS[ExaminedType(i)])

\* how many of the required sections of its category file i has a heading for
SectionsFound(i) ==
    Cardinality({k \in 1..RequiredCount(i) :
        \E l \in 1..Len(fs.docs[i].text) :
            /\ fs.docs[i].text[l].hashes \in 1..4
            /\ fs.docs[i].text[l].text # <<>>
            /\ Lower(fs.docs[i].text[l].text[1])
                   = Lower(REQUIRED_SECTIONS[ExaminedType(i)][k])})

PerFileKinds ==
    {"all required sections present", "n/total sections found (pct%)",
     "only n/total sections found (pct%)"}

\* the per-file findings of results.content that are about file i
FindingsAbout(i) ==
    {k \in 1..Len(results.content) :
        /\ results.content[k].kind \in PerFileKinds
        /\ results.content[k].subject = ExaminedName(i)
        /\ results.content[k].total = RequiredCount(i)}

SeverityOfShare(found, required) ==
    IF found = required THEN "success"
    ELSE IF 4 * found >= 3 * required THEN "warning"
    ELSE "error"

\* C4: verifyFileContent appends exactly one finding per examined file, of
\* severity success when all required sections of the category are found,
\* warning when fewer than all but at least 75% are found, error otherwise.
C4_OneFindingPerFile ==
    ContentDone =>
        /\ Cardinality({k \in 1..Len(results.content) :
                           results.content[k].kind \in PerFileKinds})
              = Cardinality(Examined)
        /\ \A i \in Examined :
              /\ Cardinality(FindingsAbout(i)) = 1
              /\ \A k \in FindingsAbout(i) :
                    results.content[k].type
                        = SeverityOfShare(SectionsFound(i), RequiredCount(i))

C4_Witness ==
    /\ pc = "references"
    /\ \A t \in {"success", "warning", "error"} :
          \E i \in Examined : \E k \in FindingsAbout(i) :
              results.content[k].type = t

\* the domain files that have exactly 4 of the 6 required domain sections
FourOfSix == {i \in Examined : ExaminedType(i) = "domain" /\ SectionsFound(i) = 4}

\* C5, as the specification words it: a domain file with exactly 4 of the 6 required sections
\* yields a per-file finding of severity warning that says 4/6 and 67%.
C5_FourOfSixIsWarning ==
    ContentDone =>
        \A i \in FourOfSix : \E k \in FindingsAbout(i) :
            /\ results.content[k].type = "warning"
            /\ results.content[k].n = 4
            /\ results.content[k].total = 6
            /\ results.content[k].pct = 67

\* C5, as the code has it: a domain file with exactly 4 of the 6 required sections yields
\* a per-file finding of severity error that says 4/6 and 67%.
C5_FourOfSixIsError ==
    ContentDone =>
        \A i \in FourOfSix : \E k \in FindingsAbout(i) :
            /\ results.content[k].type = "error"
            /\ results.content[k].kind = "only n/total sections found (pct%)"
            /\ results.content[k].n = 4
            /\ results.content[k].total = 6
            /\ results.content[k].pct = 67

C5_Witness ==
    /\ pc = "references"
    /\ FourOfSix # {}
    /\ \E k \in 1..Len(results.content) :
          results.content[k].type = "error" /\ results.content[k].pct = 67

\* the documentation files, read off the directory tree: the .md files under
\* context/ that are not below a directory named templates
DocumentationFiles ==
    {i \in 1..Len(fs.docs) :
        LET p == fs.docs[i].path
        IN  /\ ContextIsDirectory
            /\ EndsWithMd(Basename(p))
            /\ \A k \in 1..(Len(p) - 1) : p[k] # Name("templates")}

\* the name of file i, without .md or in full, occurs in the text of another
\* documentation file or of the project's CLAUDE.md or AGENTS.md
Mentioned(i) ==
    \E nm \in {BasenameNoMd(fs.docs[i].path), Basename(fs.docs[i].path)} :
        \/ \E j \in DocumentationFiles \ {i} :
              \E l \in 1..Len(fs.docs[j].text) : IsInfix(nm, fs.docs[j].text[l].text)
        \/ \E m \in {CLAUDE, AGENTS} \cap fs.root :
              \E l \in 1..Len(fs.text[m]) : IsInfix(nm, fs.text[m][l].text)

Orphans == {i \in DocumentationFiles : ~Mentioned(i)}

InfoFindings ==
    {k \in 1..Len(results.crossReferences) :
        results.crossReferences[k].type = "info"}

\* C6: a documentation file is reported as orphan if and only if neither its
\* name without .md nor its basename occurs in the text of any other
\* documentation file, nor in the root CLAUDE.md or AGENTS.md; two files that
\* mention only each other are both not orphans.
C6_OrphanIffUnmentioned ==
    CrossReferencesDone /\ ContextIsDirectory =>
        /\ {results.crossReferences[k].subject : k \in InfoFindings}
              = {fs.docs[i].path : i \in Orphans}
        /\ \A i \in DocumentationFiles :
              (i \in Orphans) <=>
                  \E k \in 1..Len(findOrphanedFiles(getAllContextFiles)) :
                      findOrphanedFiles(getAllContextFiles)[k] = fs.docs[i].path

\* two files that mention only each other, and nothing else mentions them
C6_Witness ==
    /\ CrossReferencesDone
    /\ fs.root = {}
    /\ Cardinality(DocumentationFiles) = 2
    /\ \A i \in DocumentationFiles :
          /\ Mentioned(i)
          /\ BasenameNoMd(fs.docs[i].path) # <<"auth">>
          /\ ~Includes(fs.docs[i].text, BasenameNoMd(fs.docs[i].path))
    /\ InfoFindings = {}

\* the path-shaped tokens of the modelled texts
Tokens == {<<r, b, e>> : r \in RootWords, b \in PathBodies, e \in Extensions}

\* how many path references of file i are to a token of M
CountIn(i, M) ==
    LET text == fs.docs[i].text
    IN  Cardinality(UNION {{<<l, j>> : j \in {x \in MatchStarts(text[l].text) :
                                   SubSeq(text[l].text, x, x + 2) \in M}} :
                           l \in 1..Len(text)})

\* how often token m occurs as a path reference in file i
Occurrences(i, m) == CountIn(i, {m})

RECURSIVE SumOccurrences(_, _, _)
SumOccurrences(S, b, m) ==
    IF S = {} THEN 0
    ELSE LET i == CHOOSE x \in S : TRUE
         IN  (IF Basename(fs.docs[i].path) = b THEN Occurrences(i, m) ELSE 0)
             + SumOccurrences(S \ {i}, b, m)

RECURSIVE SumTokens(_, _)
SumTokens(S, M) ==
    IF S = {} THEN 0
    ELSE LET i == CHOOSE x \in S : TRUE
         IN  CountIn(i, M) + SumTokens(S \ {i}, M)

ValidCount == SumTokens(DocumentationFiles, Tokens \cap fs.src)
BrokenCount == SumTokens(DocumentationFiles, Tokens \ fs.src)

PerReference ==
    {k \in 1..Len(results.crossReferences) :
        results.crossReferences[k].kind = "references non-existent file"}

\* C7: every occurrence of a path-shaped reference in a documentation file
\* appends one warning naming the file and the reference if and only if the
\* path does not exist under the project root; an existing target appends no
\* per-reference finding.
C7_WarningPerBrokenOccurrence ==
    CrossReferencesDone /\ ContextIsDirectory =>
        /\ Cardinality(PerReference) = BrokenCount
        /\ \A k \in PerReference : results.crossReferences[k].type = "warning"
        /\ \A i \in DocumentationFiles : \A m \in Tokens :
              Cardinality({k \in PerReference :
                  /\ results.crossReferences[k].subject = <<Basename(fs.docs[i].path)>>
                  /\ results.crossReferences[k].ref = m})
              = IF m \in fs.src THEN 0
                ELSE SumOccurrences(DocumentationFiles, Basename(fs.docs[i].path), m)

\* a corpus with a single reference, to the missing src/x/missing.ts
C7_Witness ==
    /\ CrossReferencesDone
    /\ ValidCount = 0
    /\ BrokenCount = 1
    /\ Cardinality({k \in 1..Len(results.crossReferences) :
           /\ results.crossReferences[k].type = "warning"
           /\ results.crossReferences[k].ref = MissingRef}) = 1

ValidSummaries ==
    {k \in 1..Len(results.crossReferences) :
        /\ results.crossReferences[k].kind = "n valid file reference(s) found"
        /\ results.crossReferences[k].type = "success"}

BrokenSummaries ==
    {k \in 1..Len(results.crossReferences) :
        /\ results.crossReferences[k].kind = "n broken file reference(s) detected"
        /\ results.crossReferences[k].type = "warning"}

BrokenSummaryIffBroken ==
    /\ Cardinality(BrokenSummaries) = (IF BrokenCount > 0 THEN 1 ELSE 0)
    /\ \A k \in BrokenSummaries : results.crossReferences[k].n = BrokenCount

\* C8, as the specification words it: whenever context/ exists, verifyCrossReferences appends
\* exactly one success summary of the count of valid references, whatever
\* the count, and a warning summary of the count of broken references if and
\* only if that count is greater than zero.
C8_ValidSummaryAlways ==
    CrossReferencesDone /\ ContextExists =>
        /\ Cardinality(ValidSummaries) = 1
        /\ \A k \in ValidSummaries : results.crossReferences[k].n = ValidCount
        /\ BrokenSummaryIffBroken

\* C8, as the code has it: whenever context/ is a directory, verifyCrossReferences
\* appends one success summary of the count of valid references if and only
\* if that count is greater than zero, and one warning summary of the count
\* of broken references if and only if that count is greater than zero.
C8_SummariesIffPositive ==
    CrossReferencesDone /\ ContextIsDirectory =>
        /\ Cardinality(ValidSummaries) = (IF ValidCount > 0 THEN 1 ELSE 0)
        /\ \A k \in ValidSummaries : results.crossReferences[k].n = ValidCount
        /\ BrokenSummaryIffBroken

C8_Witness ==
    /\ CrossReferencesDone
    /\ ContextIsDirectory
    /\ ValidCount = 0
    /\ BrokenCount = 2
    /\ ValidSummaries = {}
    /\ Cardinality(BrokenSummaries) = 1

\* C9: the orphan step appends exactly one success finding when there are no
\* orphans; otherwise exactly one warning with the orphan count, followed by
\* exactly one info finding per orphaned file; the info findings of
\* crossReferences are as many as the orphans.
C9_OrphanStep ==
    CrossReferencesDone /\ ContextIsDirectory =>
        LET x == results.crossReferences
            n == Cardinality(Orphans)
            none   == {k \in 1..Len(x) :
                          x[k].kind = "No orphaned context files detected"}
            counts == {k \in 1..Len(x) :
                          x[k].kind = "n orphaned context file(s) detected"}
        IN  /\ Cardinality(InfoFindings) = n
            /\ IF n = 0
               THEN /\ counts = {}
                    /\ none = {Len(x)}
                    /\ x[Len(x)].type = "success"
               ELSE /\ none = {}
                    /\ counts = {Len(x) - n}
                    /\ x[Len(x) - n].type = "warning"
                    /\ x[Len(x) - n].n = n
                    /\ InfoFindings = (Len(x) - n + 1)..Len(x)
                    /\ \A i \in Orphans : \E k \in InfoFindings :
                          x[k].subject = fs.docs[i].path

C9_Witness ==
    /\ CrossReferencesDone
    /\ Cardinality(Orphans) = 2
    /\ Cardinality(DocumentationFiles) = 3
    /\ Cardinality(InfoFindings) = 2

RootFindings(file) ==
    {k \in 1..Len(results.structure) :
        /\ results.structure[k].kind \in
              {"exists in project root", "missing in project root"}
        /\ results.structure[k].subject = <<file>>}

SubdirFindings(subdir) ==
    {k \in 1..Len(results.structure) :
        /\ results.structure[k].kind \in
              {"context/subdir/ directory exists", "context/subdir/ directory missing"}
        /\ results.structure[k].subject = <<subdir>>}

OneFindingPerRootFile ==
    \A file \in RootNames :
        /\ Cardinality(RootFindings(file)) = 1
        /\ \A k \in RootFindings(file) :
              results.structure[k].type
                  = IF file \in fs.root THEN "success" ELSE "error"

\* context/<subdir> is a directory
SubdirPresent(subdir) == ContextIsDirectory /\ <<subdir>> \in fs.dirs

RequiredSubdirs == {Name("templates")}

\* C10, as the specification words it: in every run verifyStructure records exactly one finding
\* for each required root file (success if present, error if absent) and
\* exactly one for each required subdirectory (success if present, warning
\* if absent), whatever the project directory holds.
C10_OneFindingEach ==
    pc # "idle" =>
        /\ OneFindingPerRootFile
        /\ \A subdir \in RequiredSubdirs :
              /\ Cardinality(SubdirFindings(subdir)) = 1
              /\ \A k \in SubdirFindings(subdir) :
                    results.structure[k].type
                        = IF SubdirPresent(subdir) THEN "success" ELSE "warning"

\* C10, as the code has it: in every run verifyStructure records exactly one finding for
\* each required root file (success if present, error if absent); when
\* context/ is a directory it records exactly one finding for each required
\* subdirectory (success if it is a directory, warning otherwise), and when
\* context/ is not a directory it records none.
C10_SubdirsOnlyUnderContext ==
    pc # "idle" =>
        /\ OneFindingPerRootFile
        /\ \A subdir \in RequiredSubdirs :
              /\ Cardinality(SubdirFindings(subdir))
                    = (IF ContextIsDirectory THEN 1 ELSE 0)
              /\ \A k \in SubdirFindings(subdir) :
                    results.structure[k].type
                        = IF SubdirPresent(subdir) THEN "success" ELSE "warning"

C10_Witness ==
    /\ pc = "content"
    /\ ~ContextExists
    /\ fs.root = {AGENTS}
    /\ OneFindingPerRootFile
    /\ SubdirFindings(Name("templates")) = {}

\* the summary findings of results.content about a category directory
Summaries(dir) ==
    {k \in 1..Len(results.content) :
        /\ results.content[k].kind \in {"No files found", "Found n file(s)"}
        /\ results.content[k].subject = <<dir>>}

\* the files discovered in a category directory
Discovered(dir) == {i \in Examined : fs.docs[i].path[1] = dir}

CategoryExists(dir) == ContextIsDirectory /\ <<dir>> \in fs.dirs

\* C11: in verifyContent a category directory that does not exist gets no
\* content finding at all; one that exists gets exactly one summary finding
\* (success with the file count when it has a file, warning when it has none)
\* plus one per-file finding for each discovered file.
C11_FindingsPerCategory ==
    ContentDone /\ ContextIsDirectory =>
        /\ \A dir \in CategoryDirs :
              IF ~CategoryExists(dir)
              THEN Summaries(dir) = {} /\ Discovered(dir) = {}
              ELSE /\ Cardinality(Summaries(dir)) = 1
                   /\ \A k \in Summaries(dir) :
                         IF Discovered(dir) = {}
                         THEN results.content[k].type = "warning"
                         ELSE /\ results.content[k].type = "success"
                              /\ results.content[k].n = Cardinality(Discovered(dir))
                   /\ \A i \in Discovered(dir) : Cardinality(FindingsAbout(i)) = 1
        /\ Len(results.content)
              = Cardinality({dir \in CategoryDirs : CategoryExists(dir)})
                + Cardinality(Examined)

\* one category is absent, one exists empty, one holds a file
C11_Witness ==
    /\ pc = "references"
    /\ \E a, b, c \in CategoryDirs :
          /\ ~CategoryExists(a)
          /\ CategoryExists(b) /\ Discovered(b) = {}
          /\ \A k \in Summaries(b) : results.content[k].type = "warning"
          /\ Discovered(c) # {}
    /\ Len(results.content) >= 3

-----------------------------------------------------------------------------
(* detectTechStack (scan.js:312-437).  A dependency group is a function    *)
(* from the declared package names to their version strings.               *)

null == "null"

\* the version strings a manifest declares; "" is npm's "any version"
Versions == {"", "1.0.0", "^1.0.0"}

\* String.prototype.replace(pattern, "") with a string pattern: the first
\* occurrence is removed
replace(v, pattern) ==
    CASE v = "^1.0.0" /\ pattern = "^" -> "1.0.0"
      [] v = "~1.0.0" /\ pattern = "~" -> "1.0.0"
      [] OTHER -> v

NoDeps == [k \in {} |-> ""]

\* { ...a, ...b }
spread(a, b) ==
    [k \in (DOMAIN a) \cup (DOMAIN b) |-> IF k \in DOMAIN b THEN b[k] ELSE a[k]]

\* the key is declared, whatever its value
declared(deps, key) == key \in DOMAIN deps

\* deps[key] used as a condition: undefined and "" are both falsy
truthy(deps, key) == key \in DOMAIN deps /\ deps[key] # ""

Rule(keys, name) == [keys |-> keys, name |-> name]

\* the push rules of each set-valued field, in the order of the source
navigationRules ==
    << Rule({"@react-navigation/native"}, "React Navigation"),
       Rule({"@react-navigation/stack"}, "Stack Navigator"),
       Rule({"@react-navigation/bottom-tabs"}, "Bottom Tabs"),
       Rule({"@react-navigation/drawer"}, "Drawer Navigator"),
       Rule({"expo-router"}, "Expo Router"),
       Rule({"next"}, "Next.js File-based Routing") >>

stateManagementRules ==
    << Rule({"zustand"}, "Zustand"),
       Rule({"redux", "@reduxjs/toolkit"}, "Redux"),
       Rule({"mobx"}, "MobX"),
       Rule({"jotai"}, "Jotai"),
       Rule({"recoil"}, "Recoil"),
       Rule({"@legendapp/state"}, "Legend State") >>

apiLayerRules ==
    << Rule({"@apollo/client"}, "Apollo Client"),
       Rule({"react-query", "@tanstack/react-query"}, "React Query"),
       Rule({"trpc", "@trpc/client"}, "tRPC"),
       Rule({"axios"}, "Axios"),
       Rule({"graphql"}, "GraphQL"),
       Rule({"swr"}, "SWR") >>

uiLibraryRules ==
    << Rule({"@shadcn/ui"}, "shadcn/ui"),
       Rule({"@mui/material"}, "Material-UI"),
       Rule({"@chakra-ui/react"}, "Chakra UI"),
       Rule({"antd"}, "Ant Design"),
       Rule({"react-native-paper"}, "React Native Paper"),
       Rule({"native-base", "@gluestack-ui/themed"}, "GlueStack UI"),
       Rule({"tamagui"}, "Tamagui"),
       Rule({"@rneui/themed"}, "React Native Elements"),
       Rule({"react-native-elements"}, "React Native Elements") >>

testingRules ==
    << Rule({"vitest"}, "Vitest"),
       Rule({"jest"}, "Jest"),
       Rule({"@playwright/test"}, "Playwright"),
       Rule({"cypress"}, "Cypress"),
       Rule({"@testing-library/react-native"}, "React Native Testing Library"),
       Rule({"@testing-library/react"}, "React Testing Library"),
       Rule({"detox"}, "Detox"),
       Rule({"maestro"}, "Maestro") >>

cssRules ==
    << Rule({"tailwindcss"}, "Tailwind CSS"),
       Rule({"nativewind"}, "NativeWind"),
       Rule({"styled-components"}, "Styled Components"),
       Rule({"@emotion/react"}, "Emotion"),
       Rule({"sass"}, "SASS/SCSS"),
       Rule({"react-native-unistyles"}, "Unistyles") >>

backendRules ==
    << Rule({"@supabase/supabase-js"}, "Supabase"),
       Rule({"firebase", "@react-native-firebase/app"}, "Firebase"),
       Rule({"@prisma/client"}, "Prisma"),
       Rule({"express"}, "Express"),
       Rule({"fastify"}, "Fastify"),
       Rule({"hono"}, "Hono"),
       Rule({"@aws-sdk/client-dynamodb"}, "AWS DynamoDB"),
       Rule({"mongoose"}, "Mongoose/MongoDB"),
       Rule({"drizzle"}, "Drizzle ORM"),
       Rule({"drizzle-orm"}, "Drizzle ORM") >>

databaseRules ==
    << Rule({"@prisma/client"}, "Prisma"),
       Rule({"drizzle-orm"}, "Drizzle"),
       Rule({"@supabase/supabase-js"}, "Supabase (PostgreSQL)"),
       Rule({"mongoose"}, "MongoDB"),
       Rule({"typeorm"}, "TypeORM"),
       Rule({"knex"}, "Knex.js"),
       Rule({"expo-sqlite"}, "Expo SQLite"),
       Rule({"@nozbe/watermelondb"}, "WatermelonDB"),
       Rule({"realm"}, "Realm") >>

\* the first matching rule only
RECURSIVE pushFirst(_, _, _)
pushFirst(deps, rules, i) ==
    IF i > Len(rules) THEN <<>>
    ELSE IF \E k \in rules[i].keys : truthy(deps, k) THEN <<rules[i].name>>
    ELSE pushFirst(deps, rules, i + 1)

\* if (deps[a] || deps[b]) field.push(name), rule after rule
RECURSIVE pushAll(_, _, _)
pushAll(deps, rules, i) ==
    IF i > Len(rules) THEN <<>>
    ELSE (IF \E k \in rules[i].keys : truthy(deps, k)
          THEN <<rules[i].name>> ELSE <<>>)
         \o pushAll(deps, rules, i + 1)

\* the platform of a mobile framework (scan.js:337, 340, 343)
mobilePlatform(deps) ==
    IF truthy(deps, "react-native-web") THEN "universal" ELSE "mobile"

\* scan.js:334-348
framework(deps) ==
    IF truthy(deps, "react-native") /\ truthy(deps, "expo") THEN "Expo"
    ELSE IF truthy(deps, "expo") THEN "Expo"
    ELSE IF truthy(deps, "react-native") THEN "React Native"
    ELSE IF truthy(deps, "next") THEN "Next.js"
    ELSE null

platform(deps) ==
    IF truthy(deps, "react-native") \/ truthy(deps, "expo")
    THEN mobilePlatform(deps)
    ELSE "web"

\* scan.js:350-355
buildTool(deps) ==
    IF truthy(deps, "next") THEN "Next.js"
    ELSE IF truthy(deps, "vite") THEN "Vite"
    ELSE IF truthy(deps, "react-scripts") THEN "Create React App"
    ELSE IF truthy(deps, "expo") THEN "Expo CLI"
    ELSE IF truthy(deps, "@expo/metro-runtime") \/ truthy(deps, "metro") THEN "Metro"
    ELSE null

\* an absent dependency group spreads to nothing
group(packageJson, name) ==
    IF name \in DOMAIN packageJson THEN packageJson[name] ELSE NoDeps

mergedDeps(packageJson) ==
    spread(group(packageJson, "dependencies"), group(packageJson, "devDependencies"))

detectTechStack(packageJson) ==
    LET deps == mergedDeps(packageJson)
    IN  [framework  |-> framework(deps),
         platform   |-> platform(deps),
         typescript |-> truthy(deps, "typescript"),
         react      |-> IF truthy(deps, "react")
                        THEN replace(replace(deps["react"], "^"), "~")
                        ELSE null,
         buildTool  |-> buildTool(deps),
         stateManagement |-> pushAll(deps, stateManagementRules, 1),
         apiLayer   |-> pushAll(deps, apiLayerRules, 1),
         uiLibrary  |-> pushAll(deps, uiLibraryRules, 1),
         testing    |-> pushAll(deps, testingRules, 1),
         css        |-> pushAll(deps, cssRules, 1),
         backend    |-> pushAll(deps, backendRules, 1),
         navigation |-> pushAll(deps, navigationRules, 1),
         database   |-> pushAll(deps, databaseRules, 1)]

-----------------------------------------------------------------------------
(* The project directory scan() reads (fs in the scan specification):      *)
(*   packageJson  <<>> when package.json is missing, else <<its content>>, *)
(*                the content being the value JSON.parse gives or, for a   *)
(*                text that is not JSON, [syntaxError |-> TRUE]            *)
(*   dirs         the listing (readdirSync order) of each directory that   *)
(*                exists, by its path relative to the project root         *)
(*   schema       <<>> when prisma/schema.prisma is missing, else <<the    *)
(*                names after `model` in it>>                              *)
(* An entry of a listing is [name, dir]: name is <<base>> or <<base, ext>>. *)

Dir(base) == [name |-> <<base>>, dir |-> TRUE]
Src(base, ext) == [name |-> <<base, ext>>, dir |-> FALSE]

\* fs.existsSync(path.join(projectRoot, p)) for a directory path
existsSync(p) == p \in DOMAIN fs.dirs
readdirSync(p) == fs.dirs[p]

\* entry.startsWith(prefix)
startsWith(entry, prefix) ==
    CASE prefix = "_" -> entry.name[1] \in {"_app", "_document", "_private"}
      [] prefix = "(" -> entry.name[1] \in {"(marketing)"}
      [] prefix = "." -> entry.name[1] \in {".git"}
      [] OTHER -> FALSE

\* entry.replace(/\.(tsx?|jsx?)$/, "")
stripSourceExt(name) ==
    IF Len(name) = 2 /\ name[2] \in {".ts", ".tsx", ".js", ".jsx"}
    THEN <<name[1]>> ELSE name

\* name.replace(/Screen$/, "")
stripScreen(name) ==
    IF name = <<"HomeScreen">> THEN <<"Home">> ELSE name

\* array.includes(x)
includes(array, x) == \E i \in 1..Len(array) : array[i] = x

\* push x whether or not the array includes it
pushAlways(array, x) == Append(array, x)

\* push x unless the array includes it
pushNew(array, x) == IF includes(array, x) THEN array ELSE Append(array, x)

\* the names of all the entries of a listing
entryNames(entries) == [i \in 1..Len(entries) |-> entries[i].name]

\* the names of the subdirectories in a listing
subdirectories(entries) ==
    LET dirs == SelectSeq(entries, LAMBDA e : e.dir)
    IN  [i \in 1..Len(dirs) |-> dirs[i].name]

\* the last path of the candidates that exists
RECURSIVE lastExisting(_, _)
lastExisting(paths, i) ==
    LET later == IF i >= Len(paths) THEN <<>> ELSE lastExisting(paths, i + 1)
    IN  IF i > Len(paths) THEN <<>>
        ELSE IF later # <<>> THEN later
        ELSE IF existsSync(paths[i]) THEN <<paths[i]>> ELSE <<>>

\* the first path of the candidates that exists, <<>> when none does
RECURSIVE firstExisting(_, _)
firstExisting(paths, i) ==
    IF i > Len(paths) THEN <<>>
    ELSE IF existsSync(paths[i]) THEN <<paths[i]>>
    ELSE firstExisting(paths, i + 1)

emptySource == [features |-> <<>>, pages |-> <<>>, screens |-> <<>>]

\* scanSourceDirectory, feature domains (scan.js:444-461)
featurePaths == <<"src/features", "src/modules", "src/domains">>

scanFeatureDomains(structure) ==
    LET found == firstExisting(featurePaths, 1)
    IN  IF found = <<>> THEN structure
        ELSE [structure EXCEPT
                 !.features = @ \o subdirectories(readdirSync(found[1]))]

\* scanSourceDirectory, pages under src/ (scan.js:463-479)
RECURSIVE scanSrcPages(_, _, _)
scanSrcPages(structure, entries, i) ==
    IF i > Len(entries) THEN structure
    ELSE LET entry == entries[i]
             name  == stripSourceExt(entry.name)
         IN  IF /\ entry.name # <<"_app", ".tsx">>
                /\ entry.name # <<"_document", ".tsx">>
                /\ ~startsWith(entry, "_")
             THEN scanSrcPages([structure EXCEPT !.features = pushNew(@, name)],
                               entries, i + 1)
             ELSE scanSrcPages(structure, entries, i + 1)

\* the part of scanSourceDirectory that fills features; the inventories it
\* globs (components, hooks, stores, graphql, types) do not touch features
scanSourceDirectory(structure) ==
    LET domains == scanFeatureDomains(structure)
    IN  IF existsSync("src/pages")
        THEN scanSrcPages(domains, readdirSync("src/pages"), 1)
        ELSE domains

\* scanFrameworkDirectories, app router (scan.js:553-580)
appDirPaths == <<"app", "src/app">>

RECURSIVE scanAppDir(_, _, _)
scanAppDir(structure, entries, i) ==
    IF i > Len(entries) THEN structure
    ELSE LET entry == entries[i]
         IN  IF /\ entry.dir
                /\ ~startsWith(entry, "_")
                /\ ~startsWith(entry, ".")
                /\ ~startsWith(entry, "(")
                /\ entry.name \notin {<<"api">>, <<"components">>, <<"lib">>, <<"utils">>}
             THEN scanAppDir([structure EXCEPT
                                 !.features = pushNew(@, entry.name),
                                 !.pages = Append(@, entry.name)],
                             entries, i + 1)
             ELSE scanAppDir(structure, entries, i + 1)

\* scanFrameworkDirectories, pages router at the root (scan.js:582-607)
RECURSIVE scanRootPages(_, _, _)
scanRootPages(structure, entries, i) ==
    IF i > Len(entries) THEN structure
    ELSE LET entry == entries[i]
             name  == stripSourceExt(entry.name)
         IN  IF /\ entry.name \notin
                      {<<"_app", ".tsx">>, <<"_app", ".ts">>, <<"_app", ".js">>,
                       <<"_document", ".tsx">>, <<"_document", ".ts">>,
                       <<"_document", ".js">>}
                /\ ~startsWith(entry, "_")
                /\ entry.name # <<"api">>
                /\ ~includes(structure.features, name)
                /\ entry.dir
             THEN scanRootPages([structure EXCEPT
                                    !.features = Append(@, name),
                                    !.pages = Append(@, name)],
                                entries, i + 1)
             ELSE scanRootPages(structure, entries, i + 1)

\* scanFrameworkDirectories, screens (scan.js:609-631)
screensPaths == <<"screens", "src/screens">>

RECURSIVE scanScreens(_, _, _)
scanScreens(structure, entries, i) ==
    IF i > Len(entries) THEN structure
    ELSE LET entry == entries[i]
         IN  IF entry.dir
             THEN scanScreens([structure EXCEPT
                                  !.screens = Append(@, entry.name),
                                  !.features = pushNew(@, entry.name)],
                              entries, i + 1)
             ELSE IF stripSourceExt(entry.name) # entry.name
             THEN scanScreens([structure EXCEPT
                                  !.screens = Append(@,
                                      stripScreen(stripSourceExt(entry.name)))],
                              entries, i + 1)
             ELSE scanScreens(structure, entries, i + 1)

\* the part of scanFrameworkDirectories that fills features, pages and
\* screens; navigation and services are globbed and touch none of them
scanFrameworkDirectories(structure) ==
    LET appDir   == firstExisting(appDirPaths, 1)
        afterApp == IF appDir = <<>> THEN structure
                    ELSE scanAppDir(structure, readdirSync(appDir[1]), 1)
        afterPages == IF existsSync("pages")
                      THEN scanRootPages(afterApp, readdirSync("pages"), 1)
                      ELSE afterApp
        screensDir == firstExisting(screensPaths, 1)
    IN  IF screensDir = <<>> THEN afterPages
        ELSE scanScreens(afterPages, readdirSync(screensDir[1]), 1)

-----------------------------------------------------------------------------
(* The backend step of scan (scan.js:90-139) and scanSupabaseDirectory     *)
(* (scan.js:663-688).                                                      *)

emptyBackend ==
    [schemas |-> <<>>, edgeFunctions |-> <<>>, migrations |-> <<>>,
     prismaModels |-> <<>>, apiRoutes |-> <<>>, serverActions |-> <<>>,
     backendType |-> null]

\* glob(`${migrationsPath}/**/*.sql`) mapped to path.basename(f, extname(f))
sqlNames(entries) ==
    LET files == SelectSeq(entries,
                     LAMBDA e : ~e.dir /\ Len(e.name) = 2 /\ e.name[2] = ".sql")
    IN  [i \in 1..Len(files) |-> <<files[i].name[1]>>]

scanSupabaseDirectory(structure) ==
    LET withSchemas ==
            IF existsSync("supabase/schemas")
            THEN [structure EXCEPT
                     !.schemas = subdirectories(readdirSync("supabase/schemas"))]
            ELSE structure
        withFunctions ==
            IF existsSync("supabase/functions")
            THEN [withSchemas EXCEPT
                     !.edgeFunctions = subdirectories(readdirSync("supabase/functions"))]
            ELSE withSchemas
    IN  IF existsSync("supabase/migrations")
        THEN [withFunctions EXCEPT
                 !.migrations = sqlNames(readdirSync("supabase/migrations"))]
        ELSE withFunctions

\* scan.js:104-108
supabaseStep(structure) ==
    IF existsSync("supabase")
    THEN [scanSupabaseDirectory(structure) EXCEPT !.backendType = "supabase"]
    ELSE structure

\* the later value always
orLater(a, b) == b

\* a || b on a backendType
orElse(a, b) == IF a = null THEN b ELSE a

\* scan.js:110-126
prismaStep(structure) ==
    IF fs.schema = <<>> THEN structure
    ELSE LET typed  == [structure EXCEPT !.backendType = orElse(@, "prisma")]
             models == IF fs.schema[1] # <<>>
                       THEN [typed EXCEPT !.prismaModels = fs.schema[1]]
                       ELSE typed
         IN  IF existsSync("prisma/migrations")
             THEN [models EXCEPT
                      !.migrations = subdirectories(readdirSync("prisma/migrations"))]
             ELSE models

\* scan.js:128-139
drizzlePaths == <<"drizzle", "src/db", "src/schema">>

drizzleStep(structure) ==
    IF firstExisting(drizzlePaths, 1) # <<>>
    THEN [structure EXCEPT !.backendType = orElse(@, "drizzle")]
    ELSE structure

\* scan.js:141-155
apiRoutePaths == <<"app/api", "src/app/api", "pages/api", "src/pages/api">>

\* path.dirname of a route folder
parentOf(p) ==
    CASE p = "app/api" -> "app"
      [] p = "src/app/api" -> "src/app"
      [] p = "pages/api" -> "pages"
      [] p = "src/pages/api" -> "src/pages"

\* fs.existsSync of a route folder: the folder has a listing, or its parent
\* lists it and it is empty
apiExists(p) ==
    \/ p \in DOMAIN fs.dirs
    \/ /\ parentOf(p) \in DOMAIN fs.dirs
       /\ includes(fs.dirs[parentOf(p)], Dir("api"))

listing(p) == IF p \in DOMAIN fs.dirs THEN fs.dirs[p] ELSE <<>>

\* path.join(dir, name) for the directories below the route folders
childOf(dir, name) ==
    CASE dir = "app/api" /\ name = <<"users">> -> "app/api/users"
      [] dir = "pages/api" /\ name = <<"users">> -> "pages/api/users"
      [] OTHER -> "(none)"

\* glob(`${dir}/**/*.{ts,tsx,js,jsx}`, { nodir: true }), each file as
\* <<its directory, its name>>
RECURSIVE globSource(_, _, _)
globSource(dir, entries, i) ==
    IF i > Len(entries) THEN <<>>
    ELSE LET entry == entries[i]
             child == childOf(dir, entry.name)
             here  == IF entry.dir
                      THEN globSource(child, listing(child), 1)
                      ELSE IF stripSourceExt(entry.name) # entry.name
                      THEN << <<dir, entry.name>> >>
                      ELSE <<>>
         IN  here \o globSource(dir, entries, i + 1)

RECURSIVE firstApiPath(_)
firstApiPath(i) ==
    IF i > Len(apiRoutePaths) THEN <<>>
    ELSE IF apiExists(apiRoutePaths[i]) THEN <<apiRoutePaths[i]>>
    ELSE firstApiPath(i + 1)

apiRoutesStep(structure) ==
    LET found == firstApiPath(1)
    IN  IF found = <<>> THEN structure
        ELSE [structure EXCEPT
                 !.apiRoutes = globSource(found[1], listing(found[1]), 1)]

-----------------------------------------------------------------------------
(* The generation step of scan (scan.js:159-288).  A path below the        *)
(* project root is the tuple of its segments; a domain segment is the      *)
(* feature name as the scan holds it.  disk is [dirs, files]: the          *)
(* directories mkdirSync has created and the files writeFileSync has       *)
(* written, each file as [path, content].                                  *)

NoEffects == [dirs |-> {}, files |-> {}]

\* any text gives a value
parsesAnything(content) == TRUE

\* JSON.parse(fs.readFileSync(packageJsonPath, "utf-8")) returns
parses(content) == "syntaxError" \notin DOMAIN content

\* the path in fs.dirs of a directory of the context skeleton
dirKey(p) ==
    CASE p = <<"context">> -> "context"
      [] p = <<"context", "domains">> -> "context/domains"
      [] p = <<"context", "architecture">> -> "context/architecture"
      [] p = <<"context", "patterns">> -> "context/patterns"
      [] OTHER -> "(none)"

\* fs.existsSync(dir) during the generation
existsOnDisk(effects, p) == p \in effects.dirs \/ dirKey(p) \in DOMAIN fs.dirs

\* fs.mkdirSync(dir, { recursive: true })
mkdirSync(effects, p) ==
    [effects EXCEPT
        !.dirs = @ \cup {q \in {SubSeq(p, 1, n) : n \in 1..Len(p)} :
                            ~existsOnDisk(effects, q)}]

\* fs.writeFileSync(file.path, file.content, "utf-8")
writeFileSync(effects, file) ==
    [effects EXCEPT
        !.files = {f \in @ : f.path # file.path}
                  \cup {[path |-> file.path, content |-> file.content]}]

\* path.dirname
dirname(p) == SubSeq(p, 1, Len(p) - 1)

\* scan.js:693-706
contextDirs ==
    << <<"context">>, <<"context", "domains">>, <<"context", "architecture">>,
       <<"context", "patterns">> >>

RECURSIVE ensureFrom(_, _)
ensureFrom(effects, i) ==
    IF i > Len(contextDirs) THEN effects
    ELSE ensureFrom(IF existsOnDisk(effects, contextDirs[i]) THEN effects
                    ELSE mkdirSync(effects, contextDirs[i]),
                    i + 1)

ensureContextDirectory(effects) == ensureFrom(effects, 1)

\* scan.js:281-287
RECURSIVE writeFiles(_, _, _)
writeFiles(effects, files, i) ==
    IF i > Len(files) THEN effects
    ELSE LET dir  == dirname(files[i].path)
             made == IF existsOnDisk(effects, dir) THEN effects
                     ELSE mkdirSync(effects, dir)
         IN  writeFiles(writeFileSync(made, files[i]), files, i + 1)

\* the content a generator returns, by the generator and what it is given
\* that differs from file to file
Content(generator, domain, count) ==
    [generator |-> generator, domain |-> domain, count |-> count]

GeneratedFile(path, type, content) ==
    [path |-> path, type |-> type, content |-> content]

\* scan.js:171-277: the generatedFiles list
generatedList(st, source, backend) ==
    LET domains ==
            [i \in 1..Len(source.features) |->
                GeneratedFile(<<"context", "domains", source.features[i], "CONTEXT.md">>,
                     "domain",
                     Content("generateDomainContext", source.features[i], 0))]
        hasDataModel ==
            \/ Len(backend.schemas) > 0
            \/ Len(backend.prismaModels) > 0
            \/ Len(st.database) > 0
        architecture ==
            << GeneratedFile(<<"context", "architecture", "SYSTEM_OVERVIEW.md">>,
                    "architecture", Content("generateSystemOverview", <<>>, 0)) >>
            \o (IF hasDataModel
                THEN << GeneratedFile(<<"context", "architecture", "DATA_MODEL.md">>,
                             "architecture", Content("generateDataModel", <<>>, 0)) >>
                ELSE <<>>)
            \o << GeneratedFile(<<"context", "architecture", "INFRASTRUCTURE.md">>,
                       "architecture", Content("generateInfrastructure", <<>>, 0)) >>
        patterns ==
            << GeneratedFile(<<"context", "patterns", "COMPONENTS.md">>, "patterns",
                    Content("generateComponentsPattern", <<>>, 0)),
               GeneratedFile(<<"context", "patterns", "FORMS.md">>, "patterns",
                    Content("generateFormsPattern", <<>>, 0)),
               GeneratedFile(<<"context", "patterns", "STATE_MANAGEMENT.md">>, "patterns",
                    Content("generateStateManagementPattern", <<>>, 0)) >>
        before == domains \o architecture \o patterns
    IN  Append(before,
               GeneratedFile(<<"context", "AGENTS.md">>, "root",
                    Content("generateAgentsMD", <<>>, Len(before))))

\* the skeleton is ensured with the dry-run option too
generationAlwaysEnsures(dryRun, effects, st, source, backend) ==
    LET ensured == ensureContextDirectory(effects)
        files   == generatedList(st, source, backend)
    IN  [files |-> files,
         disk  |-> IF ~dryRun THEN writeFiles(ensured, files, 1) ELSE ensured]

\* scan.js:159-288: the list and what is on the disk after the step
generation(dryRun, effects, st, source, backend) ==
    LET ensured == IF ~dryRun THEN ensureContextDirectory(effects) ELSE effects
        files   == generatedList(st, source, backend)
    IN  [files |-> files,
         disk  |-> IF ~dryRun THEN writeFiles(ensured, files, 1) ELSE ensured]

-----------------------------------------------------------------------------
(* The manifests and directory trees the scan is run on.                   *)

RuleKeys(rules) == UNION {rules[i].keys : i \in 1..Len(rules)}

\* the keys a set-valued field is detected from, and all the keys tested
LibraryKeys ==
    RuleKeys(navigationRules) \cup RuleKeys(stateManagementRules)
    \cup RuleKeys(apiLayerRules) \cup RuleKeys(uiLibraryRules)
    \cup RuleKeys(testingRules) \cup RuleKeys(cssRules)
    \cup RuleKeys(backendRules) \cup RuleKeys(databaseRules)

AllKeys ==
    LibraryKeys \cup {"expo", "react-native", "react-native-web", "next", "vite",
                      "react-scripts", "@expo/metro-runtime", "metro",
                      "typescript", "react"}

Manifest(dependencies, devDependencies) ==
    [dependencies |-> dependencies, devDependencies |-> devDependencies]

One(k, v) == [x \in {k} |-> v]

\* one key, in the runtime group, the development group, or both
SingleKeyManifests ==
    {Manifest(One(k, v), NoDeps) : k \in AllKeys, v \in Versions}
    \cup {Manifest(NoDeps, One(k, v)) : k \in AllKeys, v \in Versions}
    \cup {Manifest(One(k, v), One(k, w)) : k \in AllKeys, v \in Versions, w \in Versions}

\* the most keys of a manifest that combines keys
MaxKeys == 2

CombinedKeys ==
    {"expo", "react-native", "next", "vite", "react-native-web", "typescript",
     "@rneui/themed", "react-native-elements", "drizzle", "drizzle-orm",
     "metro", "zustand"}

CombinedManifests ==
    UNION {{Manifest(deps, NoDeps) : deps \in [S -> {"", "1.0.0"}]} :
           S \in {T \in SUBSET CombinedKeys :
                     Cardinality(T) >= 2 /\ Cardinality(T) <= MaxKeys}}

\* a package.json without dependency groups
BareManifest == [name |-> "app"]

Manifests == SingleKeyManifests \cup CombinedManifests \cup {BareManifest}

NextManifest ==
    Manifest([k \in {"next", "typescript"} |-> "^1.0.0"], NoDeps)

NoDirs == [p \in {} |-> <<>>]

ScanProject(packageJson, dirs, schema) ==
    [packageJson |-> packageJson, dirs |-> dirs, schema |-> schema]

\* src/ exists when something below it does
WithSrc(paths) ==
    paths \cup (IF \E p \in paths : p \in {"src/features", "src/modules",
                     "src/domains", "src/pages", "src/app", "src/screens",
                     "src/db", "src/schema"}
                THEN {"src"} ELSE {})

ManifestProjects ==
    {ScanProject(<<m>>, NoDirs, <<>>) : m \in Manifests}
    \cup {ScanProject(<<>>, NoDirs, <<>>)}

ConventionDirs ==
    {"src/features", "src/modules", "src/domains", "src/pages", "app",
     "src/app", "pages", "screens", "src/screens"}

Listings ==
    { <<>>,
      <<Dir("auth"), Dir("billing"), Src("auth", ".tsx")>>,
      <<Dir("billing"), Src("auth", ".tsx"), Dir("api"), Dir("_private")>>,
      <<Src("_app", ".tsx"), Src("HomeScreen", ".tsx"), Dir("(marketing)"),
        Dir("auth"), Src("README", ".md")>> }

\* the most convention directories of a modelled tree
MaxConventions == 2

TreeProjects ==
    UNION {{ScanProject(<<NextManifest>>,
                        [p \in WithSrc(S) |-> IF p \in S THEN l[p] ELSE <<>>],
                        <<>>) : l \in [S -> Listings]} :
           S \in {T \in SUBSET ConventionDirs : Cardinality(T) <= MaxConventions}}

SupabaseTrees ==
    { NoDirs,
      [p \in {"supabase"} |-> <<>>],
      [p \in {"supabase", "supabase/schemas", "supabase/functions",
              "supabase/migrations"} |->
          CASE p = "supabase/schemas" -> <<Dir("public")>>
            [] p = "supabase/functions" -> <<Dir("hello"), Src("deno", ".json")>>
            [] p = "supabase/migrations" -> <<Src("001_init", ".sql")>>
            [] OTHER -> <<>>] }

PrismaTrees ==
    { NoDirs,
      [p \in {"prisma/migrations"} |-> <<Dir("20240101_init"), Src("migration_lock", ".toml")>>] }

Schemas == {<<>>, <<<<>>>>, <<<<"User", "Post">>>>}

BackendProjects ==
    {ScanProject(<<NextManifest>>,
                 [p \in (DOMAIN s) \cup (DOMAIN m) \cup WithSrc(D) |->
                     IF p \in DOMAIN s THEN s[p]
                     ELSE IF p \in DOMAIN m THEN m[p] ELSE <<>>],
                 schema) :
        s \in SupabaseTrees, m \in PrismaTrees, schema \in Schemas,
        D \in SUBSET {"drizzle", "src/db", "src/schema"}}

\* a package.json that is not JSON
Unparseable == [syntaxError |-> TRUE]

Merge(f, g) ==
    [p \in (DOMAIN f) \cup (DOMAIN g) |-> IF p \in DOMAIN f THEN f[p] ELSE g[p]]

\* the context directory before the scan: missing, empty, or the skeleton
ContextTrees ==
    { NoDirs,
      [p \in {"context"} |-> <<>>],
      [p \in {"context", "context/domains", "context/architecture",
              "context/patterns"} |->
          IF p = "context"
          THEN <<Dir("domains"), Dir("architecture"), Dir("patterns")>>
          ELSE <<>>] }

ApiTrees ==
    { NoDirs,
      [p \in {"app", "app/api", "app/api/users"} |->
          CASE p = "app" -> <<Dir("auth"), Dir("api")>>
            [] p = "app/api" ->
                 <<Dir("users"), Src("health", ".ts"), Src("README", ".md")>>
            [] p = "app/api/users" -> <<Src("route", ".ts")>>],
      [p \in {"pages", "pages/api", "src", "src/app", "src/app/api"} |->
          CASE p = "pages" -> <<Dir("api"), Dir("billing")>>
            [] p = "pages/api" -> <<Src("hello", ".js")>>
            [] p = "src" -> <<>>
            [] p = "src/app" -> <<Dir("api"), Dir("auth")>>
            [] p = "src/app/api" -> <<Src("route", ".ts")>>] }

\* the projects that are scanned with and without the dry-run option
GenerationProjects ==
    {ScanProject(<<m>>, Merge(c, Merge(a, s)), schema) :
        m \in {NextManifest, Manifest(One("mongoose", "1.0.0"), NoDeps)},
        c \in ContextTrees, a \in ApiTrees,
        s \in {t \in SupabaseTrees : Cardinality(DOMAIN t) # 1},
        schema \in {<<>>, <<<<"User", "Post">>>>}}

\* the projects whose package.json is missing or is not JSON
FailingProjects ==
    {ScanProject(m, Merge(c, a), <<>>) :
        m \in {<<>>, <<Unparseable>>}, c \in ContextTrees, a \in ApiTrees}

DryRunProjects == GenerationProjects \cup FailingProjects

ScanProjects ==
    ManifestProjects \cup TreeProjects \cup BackendProjects
    \cup GenerationProjects \cup FailingProjects

-----------------------------------------------------------------------------
(* scan (scan.js:21-307), step by step.                                    *)

ScanInit ==
    /\ fs \in ScanProjects
    /\ options \in {[dryRun |-> d] :
                       d \in IF fs \in DryRunProjects THEN BOOLEAN ELSE {FALSE}}
    /\ pc = "idle"
    /\ results = EmptyResults
    /\ ret = <<>>
    /\ stack = "none"
    /\ sourceStructure = "none"
    /\ backendStructure = "none"
    /\ generatedFiles = "none"
    /\ disk = NoEffects

\* scan is called: package.json is looked for, parsed and the stack detected
\* (scan.js:34-76); process.exit(1) when it is missing (scan.js:41) or when
\* JSON.parse throws (scan.js:302-306).  ret is the exit status.
Scan ==
    /\ pc = "idle"
    /\ IF fs.packageJson = <<>> \/ ~parses(fs.packageJson[1])
       THEN /\ pc' = "exited"
            /\ ret' = <<1>>
            /\ UNCHANGED <<stack, sourceStructure>>
       ELSE /\ stack' = detectTechStack(fs.packageJson[1])
            /\ sourceStructure' = emptySource
            /\ pc' = "source"
            /\ UNCHANGED ret
    /\ UNCHANGED <<fs, results, backendStructure, genVars>>

\* scan.js:78-81
ScanSourceDirectory ==
    /\ pc = "source"
    /\ sourceStructure' = IF existsSync("src")
                          THEN scanSourceDirectory(sourceStructure)
                          ELSE sourceStructure
    /\ pc' = "framework"
    /\ UNCHANGED <<fs, results, ret, stack, backendStructure, genVars>>

\* scan.js:83-84
ScanFrameworkDirectories ==
    /\ pc = "framework"
    /\ sourceStructure' = scanFrameworkDirectories(sourceStructure)
    /\ pc' = "supabase"
    /\ UNCHANGED <<fs, results, ret, stack, backendStructure, genVars>>

\* scan.js:94-108
ScanSupabase ==
    /\ pc = "supabase"
    /\ backendStructure' = supabaseStep(emptyBackend)
    /\ pc' = "prisma"
    /\ UNCHANGED <<fs, results, ret, stack, sourceStructure, genVars>>

\* scan.js:110-126
ScanPrisma ==
    /\ pc = "prisma"
    /\ backendStructure' = prismaStep(backendStructure)
    /\ pc' = "drizzle"
    /\ UNCHANGED <<fs, results, ret, stack, sourceStructure, genVars>>

\* scan.js:128-139
ScanDrizzle ==
    /\ pc = "drizzle"
    /\ backendStructure' = drizzleStep(backendStructure)
    /\ pc' = "api"
    /\ UNCHANGED <<fs, results, ret, stack, sourceStructure, genVars>>

\* scan.js:141-155
ScanApiRoutes ==
    /\ pc = "api"
    /\ backendStructure' = apiRoutesStep(backendStructure)
    /\ pc' = "generate"
    /\ UNCHANGED <<fs, results, ret, stack, sourceStructure, genVars>>

\* scan.js:159-290
Generate ==
    /\ pc = "generate"
    /\ LET generated == generation(options.dryRun, disk, stack,
                                   sourceStructure, backendStructure)
       IN  /\ generatedFiles' = generated.files
           /\ disk' = generated.disk
    /\ pc' = "finished"
    /\ UNCHANGED <<fs, results, ret, stack, sourceStructure, backendStructure,
                   options>>

ScanNext ==
    \/ Scan
    \/ ScanSourceDirectory
    \/ ScanFrameworkDirectories
    \/ ScanSupabase
    \/ ScanPrisma
    \/ ScanDrizzle
    \/ ScanApiRoutes
    \/ Generate

SpecScan == ScanInit /\ [][ScanNext]_vars

-----------------------------------------------------------------------------
(* Properties of the scan.                                                 *)

\* the stack has been detected from the manifest of the project
Detected == pc = "source"

Merged == mergedDeps(fs.packageJson[1])

\* the first of the candidates <<key, value>> whose key is declared
RECURSIVE FirstDeclared(_, _)
FirstDeclared(candidates, i) ==
    IF i > Len(candidates) THEN null
    ELSE IF candidates[i][1] \in DOMAIN Merged THEN candidates[i][2]
    ELSE FirstDeclared(candidates, i + 1)

\* C12: each single-valued field is set by the first matching rule of a
\* fixed order: framework is Expo if expo is declared, else React Native if
\* react-native is declared, else Next.js if next is declared, else null;
\* buildTool is the first match of next, vite, react-scripts, expo, metro;
\* typescript is true when typescript is declared.
C12_FirstRuleWins ==
    Detected =>
        /\ stack.framework =
              FirstDeclared(<< <<"expo", "Expo">>, <<"react-native", "React Native">>,
                               <<"next", "Next.js">> >>, 1)
        /\ stack.buildTool =
              FirstDeclared(<< <<"next", "Next.js">>, <<"vite", "Vite">>,
                               <<"react-scripts", "Create React App">>,
                               <<"expo", "Expo CLI">>,
                               <<"@expo/metro-runtime", "Metro">>,
                               <<"metro", "Metro">> >>, 1)
        /\ stack.typescript = ("typescript" \in DOMAIN Merged)

SetFields ==
    {"stateManagement", "apiLayer", "uiLibrary", "testing", "css", "backend",
     "navigation", "database"}

RulesOf(field) ==
    CASE field = "stateManagement" -> stateManagementRules
      [] field = "apiLayer" -> apiLayerRules
      [] field = "uiLibrary" -> uiLibraryRules
      [] field = "testing" -> testingRules
      [] field = "css" -> cssRules
      [] field = "backend" -> backendRules
      [] field = "navigation" -> navigationRules
      [] field = "database" -> databaseRules

Members(seq) == {seq[i] : i \in 1..Len(seq)}

\* the canonical names field gives to key
NamesFor(field, key) ==
    {RulesOf(field)[i].name : i \in {j \in 1..Len(RulesOf(field)) :
                                        key \in RulesOf(field)[j].keys}}

EmptyStack == detectTechStack(Manifest(NoDeps, NoDeps))

SingleLibrary ==
    /\ Detected
    /\ Cardinality(DOMAIN Merged) = 1
    /\ DOMAIN Merged \subseteq LibraryKeys

TheKey == CHOOSE k \in DOMAIN Merged : TRUE

\* C13, as the specification words it: a manifest whose merged map has one
\* key, a recognized library, gives a stack with exactly that library's name
\* in the one set-valued field it belongs to, every other field as for the
\* empty manifest.
C13_OneFieldOnly ==
    SingleLibrary =>
        \E field \in SetFields :
            /\ Len(stack[field]) = 1
            /\ Members(stack[field]) = NamesFor(field, TheKey)
            /\ \A other \in (DOMAIN stack) \ {field} :
                  stack[other] = EmptyStack[other]

\* C13, as the code has it: with a non-empty version the stack has the
\* library's name in every set-valued field that has a rule for the key (two
\* fields for some keys) and nothing else in a set-valued field; the other
\* fields are as for the empty manifest, except framework and buildTool for
\* next; with an empty version the stack is that of the empty manifest.
C13_EveryFieldOfTheKey ==
    SingleLibrary =>
        IF Merged[TheKey] = ""
        THEN stack = EmptyStack
        ELSE /\ \A field \in SetFields :
                   /\ Members(stack[field]) = NamesFor(field, TheKey)
                   /\ Len(stack[field]) = Cardinality(NamesFor(field, TheKey))
             /\ \A other \in (DOMAIN stack) \ SetFields :
                   stack[other] =
                       IF TheKey = "next" /\ other \in {"framework", "buildTool"}
                       THEN "Next.js" ELSE EmptyStack[other]

\* a key with rules in two fields, and the key next
C13_Witness ==
    /\ SingleLibrary
    /\ Merged[TheKey] # ""
    /\ TheKey = "@prisma/client"
    /\ stack.backend = <<"Prisma">>
    /\ stack.database = <<"Prisma">>

\* C14: no set-valued field of the stack holds the same name twice.
C14_NoDuplicates ==
    Detected =>
        \A field \in SetFields :
            Cardinality(Members(stack[field])) = Len(stack[field])

\* C15: a recognized library is detected whenever its key is declared in
\* either dependency group, whatever its version value; the stack is the
\* same whether the keys are in the runtime or the development group.
C15_DetectedWheneverDeclared ==
    Detected =>
        /\ \A field \in SetFields : \A key \in DOMAIN Merged :
              NamesFor(field, key) \subseteq Members(stack[field])
        /\ stack = detectTechStack(Manifest(NoDeps, Merged))
        /\ stack = detectTechStack(Manifest(Merged, NoDeps))

\* the manifest with one more key declared
Extended(key, version) ==
    Manifest(group(fs.packageJson[1], "dependencies"),
             spread(group(fs.packageJson[1], "devDependencies"), One(key, version)))

\* C16: when the merged dependencies of a second manifest extend those of
\* the first with more keys, every name in a set-valued field of the first
\* stack is in the same field of the second.
C16_Monotonic ==
    Detected =>
        \A key \in AllKeys \ DOMAIN Merged : \A version \in Versions :
            LET second == detectTechStack(Extended(key, version))
            IN  \A field \in SetFields :
                    Members(stack[field]) \subseteq Members(second[field])

\* a detected library stays when a library of an earlier rule is added
C16_Witness ==
    /\ Detected
    /\ stack.uiLibrary = <<"React Native Elements">>
    /\ stack.stateManagement = <<"Zustand">>
    /\ Members(detectTechStack(Extended("@shadcn/ui", "1.0.0")).uiLibrary)
          = {"shadcn/ui", "React Native Elements"}

\* the source tree has been scanned
TreeScanned ==
    pc \in {"supabase", "prisma", "drizzle", "api", "generate", "finished"}

\* the listing of the first of the paths that exists, <<>> when none does
FirstListing(paths) ==
    LET I == {i \in 1..Len(paths) : paths[i] \in DOMAIN fs.dirs}
    IN  IF I = {} THEN <<>>
        ELSE fs.dirs[paths[CHOOSE i \in I : \A j \in I : i <= j]]

NamesOf(entries) == [i \in 1..Len(entries) |-> entries[i].name]

Underscored(e) == startsWith(e, "_")

\* what each convention gives to features, from its listing
DomainFeatures(entries) == NamesOf(SelectSeq(entries, LAMBDA e : e.dir))

SrcPagesFeatures(entries) ==
    LET kept == SelectSeq(entries, LAMBDA e : ~Underscored(e))
    IN  [i \in 1..Len(kept) |->
            IF Len(kept[i].name) = 2 /\ kept[i].name[2] \in {".ts", ".tsx", ".js", ".jsx"}
            THEN <<kept[i].name[1]>> ELSE kept[i].name]

AppFeatures(entries) ==
    NamesOf(SelectSeq(entries,
        LAMBDA e : /\ e.dir
                   /\ ~Underscored(e) /\ ~startsWith(e, ".") /\ ~startsWith(e, "(")
                   /\ e.name[1] \notin {"api", "components", "lib", "utils"}))

RootPagesFeatures(entries) ==
    NamesOf(SelectSeq(entries,
        LAMBDA e : e.dir /\ ~Underscored(e) /\ e.name[1] # "api"))

ScreensFeatures(entries) == NamesOf(SelectSeq(entries, LAMBDA e : e.dir))

\* the sequence without the later occurrences of a name
RECURSIVE Dedupe(_)
Dedupe(seq) ==
    IF seq = <<>> THEN <<>>
    ELSE LET front == Dedupe(SubSeq(seq, 1, Len(seq) - 1))
             last  == seq[Len(seq)]
         IN  IF \E i \in 1..Len(front) : front[i] = last
             THEN front ELSE Append(front, last)

\* the conventions in the order of the claim, with what each gives
ConventionOrder ==
    <<"src/features", "src/modules", "src/domains", "app", "src/app",
      "src/pages", "pages">>

FeaturesOf(p) ==
    CASE p \in {"src/features", "src/modules", "src/domains"} ->
             DomainFeatures(fs.dirs[p])
      [] p \in {"app", "src/app"} -> AppFeatures(fs.dirs[p])
      [] p = "src/pages" -> Dedupe(SrcPagesFeatures(fs.dirs[p]))
      [] p = "pages" -> RootPagesFeatures(fs.dirs[p])

ExistingConventions ==
    {i \in 1..Len(ConventionOrder) : ConventionOrder[i] \in DOMAIN fs.dirs}

\* C17, as the specification words it: features comes from one convention
\* only, the first existing of src/features, src/modules, src/domains, app
\* route segments, pages entries; what a later convention (pages and
\* screens directories included) holds is never merged into features.
C17_OneConventionOnly ==
    TreeScanned =>
        sourceStructure.features =
            IF ExistingConventions = {} THEN <<>>
            ELSE FeaturesOf(ConventionOrder[
                     CHOOSE i \in ExistingConventions :
                         \A j \in ExistingConventions : i <= j])

\* C17, as the code has it: features is the merge, without repeated names,
\* of what five groups give, in this order: the first existing of
\* src/features, src/modules, src/domains; src/pages; the first existing of
\* app, src/app; pages; the first existing of screens, src/screens. Only
\* within a group is the first existing directory the only one read.
C17_MergedAcrossGroups ==
    TreeScanned =>
        sourceStructure.features =
            Dedupe(DomainFeatures(FirstListing(featurePaths))
                   \o SrcPagesFeatures(FirstListing(<<"src/pages">>))
                   \o AppFeatures(FirstListing(appDirPaths))
                   \o RootPagesFeatures(FirstListing(<<"pages">>))
                   \o ScreensFeatures(FirstListing(screensPaths)))

\* two conventions give names; the second of a group gives none
C17_Witness ==
    /\ TreeScanned
    /\ DOMAIN fs.dirs = {"src", "src/features", "src/pages"}
    /\ sourceStructure.features = << <<"auth">>, <<"billing">>, <<"api">> >>

C17_GroupWitness ==
    /\ TreeScanned
    /\ DOMAIN fs.dirs = {"src", "src/features", "src/modules"}
    /\ fs.dirs["src/modules"] = <<Dir("auth"), Dir("billing"), Src("auth", ".tsx")>>
    /\ sourceStructure.features = << <<"billing">>, <<"api">>, <<"_private">> >>

\* the one domain-convention directory of the tree, when it has just one
OneConvention == Cardinality(ExistingConventions) = 1

TheConvention == ConventionOrder[CHOOSE i \in ExistingConventions : TRUE]

\* C18, as the specification words it: when exactly one of the
\* domain-convention directories (features, modules, domains, app, pages)
\* exists, features is the names of its immediate subdirectories, in
\* listing order, without duplicates.
C18_SubdirectoriesOfTheOne ==
    (TreeScanned /\ OneConvention) =>
        sourceStructure.features =
            NamesOf(SelectSeq(fs.dirs[TheConvention], LAMBDA e : e.dir))

\* C18, as the code has it: features is, in listing order and without
\* duplicates, every immediate subdirectory for src/features, src/modules
\* and src/domains; for app and src/app the subdirectories not starting
\* with _ . ( and not named api, components, lib, utils; for pages the
\* subdirectories not starting with _ and not named api; for src/pages
\* every entry not starting with _, files included with their source
\* extension removed; followed by the subdirectories of the screens
\* directory (screens, else src/screens) not yet listed, if one exists.
C18_FeaturesOfTheOne ==
    (TreeScanned /\ OneConvention) =>
        sourceStructure.features =
            Dedupe(FeaturesOf(TheConvention)
                   \o ScreensFeatures(FirstListing(screensPaths)))

\* the one directory is src/features and all its subdirectories are listed
C18_Witness ==
    /\ TreeScanned /\ OneConvention
    /\ TheConvention = "src/features"
    /\ fs.dirs["src/features"] =
           <<Dir("billing"), Src("auth", ".tsx"), Dir("api"), Dir("_private")>>
    /\ sourceStructure.features = << <<"billing">>, <<"api">>, <<"_private">> >>

\* the detectors of the backend in probe order, with what each looks for
SupabaseExists == "supabase" \in DOMAIN fs.dirs
PrismaExists == fs.schema # <<>>
DrizzleExists == \E p \in {"drizzle", "src/db", "src/schema"} : p \in DOMAIN fs.dirs

\* the backend detectors have all run
BackendScanned == pc = "generate"

\* a backend detector has run and another is still to run
BetweenDetectors == pc \in {"prisma", "drizzle"}

\* C19: backendType is first-detected-wins over the probe order supabase
\* directory, prisma schema file, drizzle directories: it is null when none
\* exists, and once a detector has set it no later detector changes it.
C19_FirstDetectedWins ==
    /\ [](BackendScanned =>
            backendStructure.backendType =
                IF SupabaseExists THEN "supabase"
                ELSE IF PrismaExists THEN "prisma"
                ELSE IF DrizzleExists THEN "drizzle"
                ELSE null)
    /\ [][(BetweenDetectors /\ backendStructure.backendType # null) =>
              backendStructure'.backendType = backendStructure.backendType]_vars

\* all three exist and the first probed has kept the type
C19_Witness ==
    /\ BackendScanned
    /\ SupabaseExists /\ PrismaExists /\ DrizzleExists
    /\ backendStructure.backendType = "supabase"

\* C20: completeness is non-decreasing in each of its four inputs: raising
\* the structure score, the content score, the references score or the
\* number of documentation files, the other three unchanged, never lowers
\* the completeness calculateCompleteness computes.
C20_Monotone ==
    [][(pc \in Inputs) =>
          (results.scores.completeness <= results'.scores.completeness)]_vars

\* the documentation files raised past the ten that give the full term
C20_Witness ==
    /\ pc = "documentation"
    /\ Len(results.files.domains) = 11
    /\ results.scores.structure = 33
    /\ results.scores.completeness > 20

\* a score raised across a step of the rounded completeness
C20_ScoreWitness ==
    /\ pc = "references"
    /\ results.scores.references = 68
    /\ results.scores.content = 33
    /\ results.scores.completeness > 0

\* verify has returned its result
Returned == pc = "done"

\* C21: in every result verify returns, each of the scores structure,
\* content and references is the shared score formula applied to the
\* finding list of its phase in the same result, and the four scores are
\* integers in 0..100.
C21_ScoresOfReturnedFindings ==
    Returned =>
        /\ ret[1].scores.structure = ScoreFormula(ret[1].structure)
        /\ ret[1].scores.content = ScoreFormula(ret[1].content)
        /\ ret[1].scores.references = ScoreFormula(ret[1].crossReferences)
        /\ \A score \in DOMAIN ret[1].scores : ret[1].scores[score] \in 0..100

\* the phase that follows each position of verify
NextPhase(p) ==
    CASE p \in {"idle", "done", "threw"} -> "content"
      [] p = "content" -> "references"
      [] p = "references" -> "completeness"
      [] p = "completeness" -> "done"

\* the phase run by the step from position p throws: verifyStructure lists
\* a context/templates that is a regular file, verifyCrossReferences lists
\* a context that is a regular file
PhaseThrows(p) ==
    CASE p \in {"idle", "done", "threw"} ->
             /\ fs.context = "dir"
             /\ \E i \in 1..Len(fs.docs) : fs.docs[i].path = templatesPath
      [] p = "references" -> fs.context = "file"
      [] OTHER -> FALSE

CreatedReferenced ==
    /\ pc = "created"
    /\ SumTokens(DocumentationFiles, {MissingRef}) > 0

\* the references score of a run on the project as it is now
ReferencesScore == verifyCrossReferences(EmptyResults).scores.references

\* C25, as the specification words it: for any documentation tree with a
\* path reference, the references score when the referenced file does not
\* exist is strictly lower than the score of the same tree when it exists.
C25_MissingScoresLower ==
    CreatedReferenced => results.scores.references < ReferencesScore

\* C25, as the code has it: the score without the file is strictly lower
\* when the reference to it is the only path reference of the tree and
\* occurs once; with other references in the tree the score without the
\* file can be the higher one.
C25_OnlyReferenceScoresLower ==
    (CreatedReferenced /\ SumTokens(DocumentationFiles, Tokens) = 1)
        => results.scores.references < ReferencesScore

\* the file has been created for a tree with this one reference, and the
\* result of the run before is still the lower one
C25_Witness ==
    /\ pc = "created"
    /\ SumTokens(DocumentationFiles, {MissingRef}) = 1
    /\ SumTokens(DocumentationFiles, Tokens) = 1
    /\ results.scores.references = 38
    /\ ReferencesScore = 63

\* the result of an invocation of verify that runs alone on the project,
\* from the empty state
LoneResult ==
    calculateCompleteness(
        verifyCrossReferences(verifyContent(verifyStructure(EmptyResults))))

\* C26: every invocation of verify returns a result whose findings, scores
\* and file inventory were produced by that invocation alone for its
\* project, from a fresh empty state, also when two invocations overlap in
\* one process, interleaving at the awaits between the phases.
C26_OwnResult ==
    \A i \in Invocations : ret[i] # <<>> => ret[i][1] = LoneResult

\* the source structure is being filled or has been filled
SourceScanning == pc \in {"source", "framework"} \/ TreeScanned

\* no name occurs twice in the list
NoRepeats(list) ==
    \A i \in 1..Len(list) : \A j \in 1..Len(list) : list[i] = list[j] => i = j

\* C29: after every step of a scan (scanSourceDirectory, then
\* scanFrameworkDirectories, over any combination of existing convention
\* directories) the features list holds no name twice.
C29_FeaturesDeduplicated ==
    SourceScanning => NoRepeats(sourceStructure.features)

\* two convention sources both name auth and billing, and both steps ran
C29_Witness ==
    /\ pc = "supabase"
    /\ DOMAIN fs.dirs = {"src", "src/pages", "app"}
    /\ fs.dirs["src/pages"] = <<Dir("auth"), Dir("billing"), Src("auth", ".tsx")>>
    /\ fs.dirs["app"] = <<Dir("auth"), Dir("billing"), Src("auth", ".tsx")>>
    /\ sourceStructure.features = << <<"auth">>, <<"billing">> >>

\* package.json is missing or is not JSON
ManifestFails == fs.packageJson = <<>> \/ fs.packageJson = <<Unparseable>>

\* C23: if package.json is missing from the project root or cannot be
\* parsed, scan ends with a non-zero exit status before any stack detection
\* result is used, and it creates no directory and writes no file under
\* context/.
C23_FailsBeforeAnything ==
    /\ [](ManifestFails =>
            /\ pc \in {"idle", "exited"}
            /\ stack = "none" /\ sourceStructure = "none"
            /\ backendStructure = "none" /\ generatedFiles = "none"
            /\ disk = NoEffects
            /\ (pc = "exited" => ret # <<>> /\ ret[1] # 0))
    /\ [][(ManifestFails /\ pc = "idle") => pc' = "exited"]_vars

\* a package.json that is not JSON, in a project with route folders and
\* without a context directory, scanned without the dry-run option
C23_Witness ==
    /\ pc = "exited"
    /\ fs.packageJson = <<Unparseable>>
    /\ "app/api" \in DOMAIN fs.dirs
    /\ "context" \notin DOMAIN fs.dirs
    /\ ~options.dryRun
    /\ disk = NoEffects

\* the generation step has run
Generated == pc = "finished"

\* the paths of a list of generated files
PathsOf(files) == [i \in 1..Len(files) |-> files[i].path]

\* the list a scan of the project computes, from the project alone
ListOfProject ==
    generatedList(
        detectTechStack(fs.packageJson[1]),
        scanFrameworkDirectories(IF existsSync("src")
                                 THEN scanSourceDirectory(emptySource)
                                 ELSE emptySource),
        apiRoutesStep(drizzleStep(prismaStep(supabaseStep(emptyBackend)))))

\* C24: with the dry-run option scan creates no directory and writes no
\* file, and the list of generated file paths it computes is the list a
\* scan of the same project computes without the option.
C24_DryRunOnlyComputes ==
    Generated =>
        /\ options.dryRun => disk = NoEffects
        /\ PathsOf(generatedFiles) = PathsOf(ListOfProject)

\* a dry run over a project without a context directory that lists a domain
\* file, the data model and AGENTS.md
C24_Witness ==
    /\ Generated
    /\ options.dryRun
    /\ "context" \notin DOMAIN fs.dirs
    /\ Len(generatedFiles) = 8
    /\ generatedFiles[1].path = <<"context", "domains", <<"auth">>, "CONTEXT.md">>
    /\ generatedFiles[3].path = <<"context", "architecture", "DATA_MODEL.md">>
    /\ generatedFiles[8].path = <<"context", "AGENTS.md">>
    /\ disk = NoEffects

\* what the hosted-backend probe finds in the project
Hosted == supabaseStep(emptyBackend)

\* every element of the first list is in the second
AllIn(list, other) == \A i \in 1..Len(list) : includes(other, list[i])

\* C30: when several backend conventions coexist, no detector discards
\* another's contribution: after the backend scan the inventory holds
\* everything the hosted-backend probe found (schemas, edge functions,
\* migrations), the ORM models of the schema file and the API routes of the
\* first existing route folder.
C30_NothingDiscarded ==
    BackendScanned =>
        /\ AllIn(Hosted.schemas, backendStructure.schemas)
        /\ AllIn(Hosted.edgeFunctions, backendStructure.edgeFunctions)
        /\ AllIn(Hosted.migrations, backendStructure.migrations)
        /\ backendStructure.prismaModels =
               IF fs.schema = <<>> THEN <<>> ELSE fs.schema[1]
        /\ backendStructure.apiRoutes = apiRoutesStep(emptyBackend).apiRoutes

\* verifyFileContent has examined the drawn file
FileChecked == pc = "checked"

\* the text has a line that begins with 1 to 4 '#' followed by heading text
\* that starts with the section name, whatever the case
HasHeadingLine(text, section) ==
    \E l \in 1..Len(text) :
        /\ text[l].indent = 0
        /\ text[l].hashes \in 1..4
        /\ text[l].text # <<>>
        /\ Lower(text[l].text[1]) = Lower(section)

\* C27: verifyFileContent counts a required section as found if and only
\* if the file has a line that begins with 1 to 4 '#' followed by heading
\* text that starts with the section name, compared case-insensitively; a
\* name only in a line with 5 or more '#', not at the start of a line, or
\* on a line other than the heading line is not counted.
C27_HeadingLineOnly ==
    FileChecked =>
        (results.content[1].n =
            Cardinality({k \in 1..Len(REQUIRED_SECTIONS.domain) :
                HasHeadingLine(fs.docs[1].text, REQUIRED_SECTIONS.domain[k])}))

\* the .md files below context/templates
TemplateDocs ==
    {i \in 1..Len(fs.docs) :
        LET p == fs.docs[i].path
        IN  /\ ContextIsDirectory
            /\ Len(p) >= 2
            /\ p[1] = Name("templates")
            /\ EndsWithMd(Basename(p))}

\* file i is reported as an orphan
ReportedOrphan(i) ==
    \E k \in InfoFindings : results.crossReferences[k].subject = fs.docs[i].path

\* the count the summary of the valid references gives, 0 without a summary
ValidReported ==
    LET S == {k \in 1..Len(results.crossReferences) :
                 results.crossReferences[k].kind = "n valid file reference(s) found"}
    IN  IF S = {} THEN 0 ELSE results.crossReferences[CHOOSE k \in S : TRUE].n

\* C28: the files under context/templates are never live content for the
\* cross-reference phase: their path references are not scanned, they are
\* never reported as orphans, and a mention inside a template file never
\* makes another documentation file non-orphan.
C28_TemplatesNeverLive ==
    CrossReferencesDone /\ ContextIsDirectory =>
        /\ Cardinality(PerReference) = BrokenCount
        /\ ValidReported = ValidCount
        /\ \A t \in TemplateDocs : ~ReportedOrphan(t)
        /\ \A i \in DocumentationFiles : ~Mentioned(i) => ReportedOrphan(i)

\* a template refers to a missing and to an existing source path and names
\* the live files, which nothing else names: no reference is reported and
\* the live files are the orphans
C28_Witness ==
    /\ CrossReferencesDone
    /\ \E t \in TemplateDocs :
          /\ CountIn(t, Tokens \ fs.src) = 1
          /\ CountIn(t, Tokens \cap fs.src) = 1
          /\ Includes(fs.docs[t].text, <<"auth">>)
          /\ ~ReportedOrphan(t)
    /\ DocumentationFiles # {}
    /\ \A i \in DocumentationFiles :
          BasenameNoMd(fs.docs[i].path) = <<"auth">> /\ ReportedOrphan(i)
    /\ PerReference = {}
    /\ ValidReported = 0

=============================================================================
